---- MODULE Spec2Model ----
(***************************************************************************)
(* A model of the IOTA EVM MCP server: the sibling-network classifier      *)
(* (services/iota.ts), the tool and resource handlers (iota-tools.ts,      *)
(* iota-resources.ts), the cross-chain arbitrage search                    *)
(* (services/arbitrage.ts) and the network metrics                         *)
(* (services/iota-metrics.ts).                                             *)
(*                                                                         *)
(* A JavaScript string is a sequence of one-character strings, so that     *)
(* parseInt and toLowerCase are computed character by character.           *)
(***************************************************************************)
EXTENDS Integers, Sequences, FiniteSets, TLC

VARIABLES
    sibInput,     \* isIOTANetwork: the argument networkOrChainId
    sibDone,      \* isIOTANetwork: it has returned
    sibResult,    \* isIOTANetwork: the value it returned
    hReq,         \* handler: the request being served (surface, name, arguments)
    hPc,          \* handler: "idle", "gate", "run" or "done"
    hStep,        \* handler: how many steps of its body have completed
    hRpc,         \* handler: how many reads it has issued to the RPC layer
    hLast,        \* handler: how its last call ended (return, reject, throw)
    hFailed,      \* handler: the request failed (network refused or a read failed)
    hEscaped,     \* handler: an exception left the handler
    hEnv,         \* handler: the envelope it returned
    aToken,       \* arbitrage: the tokenSymbol argument
    aNets,        \* arbitrage: the networks argument
    aMin,         \* arbitrage: minProfitPercent, in thousandths of a percent
    aPc,          \* arbitrage: "idle", "quoting" or "done"
    aTasks,       \* arbitrage: the getTokenPrice promises, one per available network
    aAsked,       \* arbitrage: how many quotes have been requested
    aResult,      \* arbitrage: what findArbitrageOpportunities returned or threw
    aEnv,         \* arbitrage: the envelope of find_arbitrage_opportunities
    mIn,          \* metrics: network, blockSampleSize, and the chain that is read
    mPc,          \* metrics: "idle", "batching" or "done"
    mToken,       \* metrics: "read" or "fallback", where tokenInfo came from
    mBatch,       \* metrics: batchIndex, the number of batches awaited so far
    mOutcomes,    \* metrics: how each awaited batch ended, "fulfilled" or "rejected"
    mBlocks,      \* metrics: the array blocks
    mResult,      \* metrics: what getIOTANetworkMetrics returned or threw
    mSecond,      \* metrics: what a second call that observes the same blocks returned
    cIn,          \* comparison: iotaNetwork, compareNetworks, and the revision run
    cPc,          \* comparison: "idle", "awaiting" or "done"
    cIndex,       \* comparison: the gather awaited, 0 for iotaNetwork, k for compareNetworks[k]
    cStarted,     \* comparison: the gathers that have been called
    cSettled,     \* comparison: the gathers that have returned or thrown
    cThrew,       \* comparison: the gathers that have thrown
    cPrimary,     \* comparison: iotaMetrics
    cList,        \* comparison: the array comparisonNetworks
    cResult,      \* comparison: what compareIOTAWithOtherNetworks returned or threw
    tIn,          \* transaction analysis: the transaction and the receipt that are read
    tPc,          \* transaction analysis: "idle" or "done"
    tResult,      \* transaction analysis: what analyzeIOTATransaction returned or threw
    histIn,       \* history: who calls (the scan itself or the address metrics), network, limit, latest block
    histPc,       \* history: "idle", "called", "loop", "await", "done" or "emitted"
    histI,        \* history: i, the offset of the batch from the latest block
    histFlight,   \* history: the numbers of the blocks whose reads are awaited
    histReads,    \* history: the numbers of the blocks that have been read
    histSeen,     \* history: per processed block, how many of its transactions were inspected
    histTxs,      \* history: the array transactions
    histResult,   \* history: what getIOTATransactionHistory returned
    addrResult,   \* address metrics: the record getIOTAAddressMetrics returned
    gIn,          \* gas: the call (quote or estimate), its arguments, and what the node answers
    gPc,          \* gas: "idle" or "done"
    gQuote,       \* gas: what getIOTAGasPrices returned or threw
    gCost,        \* gas: the answer of estimate_iota_transaction_cost
    kIn,          \* contract analysis: network, the ABI, and what the node answers
    kPc,          \* contract analysis: "idle" or "done"
    kResult,      \* contract analysis: the answer of analyze_iota_smart_contract
    eIn,          \* token metadata: the function called, the network, and what each getter answers
    ePc,          \* token metadata: "idle" or "done"
    eResult,      \* token metadata: what the read returned or threw
    wIn,          \* growth: network, periodDays, the chain that is read, the batches that fail
    wPc,          \* growth: "idle", "batching" or "done"
    wBatch,       \* growth: batchIndex
    wSampled,     \* growth: the block numbers that getBlockByNumber was asked for in the sample
    wBlocks,      \* growth: the numbers of the blocks of the fulfilled batches, in order
    wResult,      \* growth: what trackIOTANetworkGrowth returned or threw
    xConnected,   \* client: the field isConnected
    xConnecting,  \* client: the connect() calls that await the node
    xOp,          \* client: the sendTransaction or getBalance call that awaits the node
    xLast,        \* client: how the last sendTransaction or getBalance call ended
    xLog,         \* client: the connect() calls that succeeded and the disconnect() calls, in order
    xCalls,       \* client: how many calls have been made
    xMarket,      \* agent: how analyzeIOTAMarket() ended
    nIn,          \* network info: the network argument
    nPc,          \* network info: the handler's position
    nResult       \* network info: the response

sibVars == <<sibInput, sibDone, sibResult>>
hVars == <<hReq, hPc, hStep, hRpc, hLast, hFailed, hEscaped, hEnv>>

aVars == <<aToken, aNets, aMin, aPc, aTasks, aAsked, aResult, aEnv>>

mVars == <<mIn, mPc, mToken, mBatch, mOutcomes, mBlocks, mResult, mSecond>>

cVars == <<cIn, cPc, cIndex, cStarted, cSettled, cThrew, cPrimary, cList, cResult>>

tVars == <<tIn, tPc, tResult>>

histVars == <<histIn, histPc, histI, histFlight, histReads, histSeen, histTxs, histResult, addrResult>>

gVars == <<gIn, gPc, gQuote, gCost>>

kVars == <<kIn, kPc, kResult>>

eVars == <<eIn, ePc, eResult>>

wVars == <<wIn, wPc, wBatch, wSampled, wBlocks, wResult>>

xVars == <<xConnected, xConnecting, xOp, xLast, xLog, xCalls, xMarket>>

nVars == <<nIn, nPc, nResult>>

laterVars == <<histVars, gVars, kVars, eVars, wVars, xVars, nVars>>

earlierVars == <<sibVars, hVars, aVars, mVars, cVars, tVars>>

vars == <<earlierVars, laterVars>>

\* What an action of one part of the model leaves alone.
notSib == <<hVars, aVars, mVars, cVars, tVars, laterVars>>
notH == <<sibVars, aVars, mVars, cVars, tVars, laterVars>>
notA == <<sibVars, hVars, mVars, cVars, tVars, laterVars>>
notM == <<sibVars, hVars, aVars, cVars, tVars, laterVars>>
notC == <<sibVars, hVars, aVars, mVars, tVars, laterVars>>
notT == <<sibVars, hVars, aVars, mVars, cVars, laterVars>>
notHist == <<earlierVars, gVars, kVars, eVars, wVars, xVars, nVars>>
notG == <<earlierVars, histVars, kVars, eVars, wVars, xVars, nVars>>
notK == <<earlierVars, histVars, gVars, eVars, wVars, xVars, nVars>>
notE == <<earlierVars, histVars, gVars, kVars, wVars, xVars, nVars>>
notW == <<earlierVars, histVars, gVars, kVars, eVars, xVars, nVars>>
notX == <<earlierVars, histVars, gVars, kVars, eVars, wVars, nVars>>
notN == <<earlierVars, histVars, gVars, kVars, eVars, wVars, xVars>>

(***************************************************************************)
(* Each part of the model at rest                                          *)
(***************************************************************************)
SibIdle ==
    /\ sibInput = [kind |-> "str", s |-> <<>>, n |-> 0]
    /\ sibDone = TRUE
    /\ sibResult = FALSE

HIdle ==
    /\ hReq = [surface |-> "none", name |-> "none", netGiven |-> FALSE,
               net |-> <<>>, gasLimitOk |-> TRUE, gasPrice |-> "absent",
               token |-> <<>>]
    /\ hPc = "idle"
    /\ hStep = 0
    /\ hRpc = 0
    /\ hLast = "none"
    /\ hFailed = FALSE
    /\ hEscaped = FALSE
    /\ hEnv = [kind |-> "none", isError |-> FALSE, errorText |-> FALSE]

AIdle ==
    /\ aToken = <<>>
    /\ aNets = <<>>
    /\ aMin = 0
    /\ aPc = "done"
    /\ aTasks = <<>>
    /\ aAsked = 0
    /\ aResult = [status |-> "none", opportunities |-> <<>>]
    /\ aEnv = [kind |-> "none", isError |-> FALSE, found |-> 0,
               topOpportunities |-> <<>>]

\* The metrics record before getIOTANetworkMetrics has returned.
NoMetrics ==
    [status |-> "none", networkName |-> <<>>, blockHeight |-> -1,
     recentTPS |-> 0, averageBlockTime |-> 0, averageGasUsed |-> 0,
     averageTxPerBlock |-> 0, totalTransactions |-> 0, gasPrice |-> 0,
     networkUtilization |-> [fixed |-> FALSE, hundredths |-> 0],
     isHealthy |-> FALSE, tokenInfo |-> "none"]

MIdle ==
    /\ mIn = [network |-> <<>>, blockSampleSize |-> 0, blockHeight |-> 0,
              chain |-> 0]
    /\ mPc = "done"
    /\ mToken = "none"
    /\ mBatch = 0
    /\ mOutcomes = <<>>
    /\ mBlocks = <<>>
    /\ mResult = NoMetrics
    /\ mSecond = NoMetrics

\* The result of compareIOTAWithOtherNetworks before it has returned.
NoComparison ==
    [status |-> "none", tpsRanking |-> <<>>, blockTimeRanking |-> <<>>,
     gasPriceRanking |-> <<>>, utilizationRanking |-> <<>>]

CIdle ==
    /\ cIn = [iotaNetwork |-> <<>>, compareNetworks |-> <<>>, revision |-> "none"]
    /\ cPc = "done"
    /\ cIndex = 0
    /\ cStarted = {}
    /\ cSettled = {}
    /\ cThrew = {}
    /\ cPrimary = NoMetrics
    /\ cList = <<>>
    /\ cResult = NoComparison

\* A JavaScript value that is undefined, null or a string.
Undefined == [kind |-> "undefined", s |-> <<>>]
Null == [kind |-> "null", s |-> <<>>]
Str(s) == [kind |-> "str", s |-> s]

\* The analysis before analyzeIOTATransaction has returned.
NoAnalysis ==
    [status |-> "none", transactionType |-> "none", gasEfficiency |-> "none",
     gasUsedPercentage |-> 0]

TIdle ==
    /\ tIn = [network |-> <<>>, data |-> Undefined, input |-> Undefined,
              to |-> Undefined, gasUsed |-> 0, gas |-> 0]
    /\ tPc = "done"
    /\ tResult = NoAnalysis

\* No record of address metrics yet.
NoRecord == [status |-> "none"]

HistIdle ==
    /\ histIn = [caller |-> "history", network |-> <<>>, limit |-> 0, latest |-> 0]
    /\ histPc = "emitted"
    /\ histI = 0
    /\ histFlight = {}
    /\ histReads = {}
    /\ histSeen = {}
    /\ histTxs = <<>>
    /\ histResult = [status |-> "none", transactions |-> <<>>]
    /\ addrResult = NoRecord

\* No gas quote and no cost estimate yet.
NoGas == [status |-> "none"]

GIdle ==
    /\ gIn = [call |-> "none"]
    /\ gPc = "done"
    /\ gQuote = NoGas
    /\ gCost = NoGas

KIdle ==
    /\ kIn = [network |-> <<>>, abi |-> {}, code |-> "0x"]
    /\ kPc = "done"
    /\ kResult = [status |-> "none"]

EIdle ==
    /\ eIn = [function |-> "none"]
    /\ ePc = "done"
    /\ eResult = [status |-> "none"]

WIdle ==
    /\ wIn = [network |-> <<>>, periodDays |-> 0, latest |-> 0, averageBlockTime |-> 0,
              failing |-> {}]
    /\ wPc = "done"
    /\ wBatch = 0
    /\ wSampled = {}
    /\ wBlocks = <<>>
    /\ wResult = [status |-> "none"]

\* No call of the client, or of the agent, has ended yet.
NoCall == [op |-> "none", live |-> FALSE, contacted |-> 0, outcome |-> "none"]

XIdle ==
    /\ xConnected = FALSE
    /\ xConnecting = 0
    /\ xOp = NoCall
    /\ xLast = NoCall
    /\ xLog = <<>>
    /\ xCalls = -1
    /\ xMarket = [status |-> "none"]

\* No response of get_iota_network_info yet.
NoInfo == [kind |-> "none", networkName |-> <<>>, chainId |-> 0, rpcUrl |-> ""]

NIdle ==
    /\ nIn = <<>>
    /\ nPc = "idle"
    /\ nResult = NoInfo

LaterIdle ==
    /\ HistIdle
    /\ GIdle
    /\ KIdle
    /\ EIdle
    /\ WIdle
    /\ XIdle
    /\ NIdle

EarlierIdle == SibIdle /\ HIdle /\ AIdle /\ MIdle /\ CIdle /\ TIdle

(***************************************************************************)
(* Strings                                                                 *)
(***************************************************************************)
UpperChars == <<"A","B","C","D","E","F","G","H","I","J","K","L","M",
                "N","O","P","Q","R","S","T","U","V","W","X","Y","Z">>
LowerChars == <<"a","b","c","d","e","f","g","h","i","j","k","l","m",
                "n","o","p","q","r","s","t","u","v","w","x","y","z">>
HexChars == <<"0","1","2","3","4","5","6","7","8","9","a","b","c","d","e","f">>

\* The index of character c in the sequence chars, 0 when it is not there.
IndexOf(c, chars) ==
    IF \E i \in 1..Len(chars) : chars[i] = c
    THEN CHOOSE i \in 1..Len(chars) : chars[i] = c
    ELSE 0

\* String.prototype.toLowerCase, one character.
ToLowerChar(c) ==
    IF IndexOf(c, UpperChars) > 0 THEN LowerChars[IndexOf(c, UpperChars)] ELSE c

\* String.prototype.toLowerCase.
ToLowerCase(s) == [i \in 1..Len(s) |-> ToLowerChar(s[i])]

\* String.prototype.toUpperCase.
ToUpperChar(c) ==
    IF IndexOf(c, LowerChars) > 0 THEN UpperChars[IndexOf(c, LowerChars)] ELSE c
ToUpperCase(s) == [i \in 1..Len(s) |-> ToUpperChar(s[i])]

\* The value of c as a digit of the radix, -1 when it is no digit of it.
DigitValue(c, radix) ==
    LET v == IndexOf(ToLowerChar(c), HexChars) - 1
    IN  IF v >= 0 /\ v < radix THEN v ELSE -1

\* Number.prototype.toString for a non-negative integer.
RECURSIVE ToDecimal(_)
ToDecimal(n) ==
    IF n < 10 THEN <<HexChars[n + 1]>>
    ELSE ToDecimal(n \div 10) \o <<HexChars[(n % 10) + 1]>>

\* parseInt, step 1: the string without its leading white space.
RECURSIVE TrimStart(_)
TrimStart(s) ==
    IF Len(s) > 0 /\ s[1] = " " THEN TrimStart(Tail(s)) ELSE s

\* parseInt, the digit loop: the longest prefix of digits of the radix, read
\* into acc; seen tells whether any digit was read.
RECURSIVE ReadDigits(_, _, _, _)
ReadDigits(s, radix, acc, seen) ==
    IF Len(s) > 0 /\ DigitValue(s[1], radix) >= 0
    THEN ReadDigits(Tail(s), radix, acc * radix + DigitValue(s[1], radix), TRUE)
    ELSE [nan |-> ~seen, val |-> acc]

\* parseInt(string) with no radix argument: white space, sign, an optional 0x
\* prefix that selects radix 16, then the digits; NaN when there is no digit.
ParseInt(s) ==
    LET t      == TrimStart(s)
        neg    == Len(t) > 0 /\ t[1] = "-"
        signed == Len(t) > 0 /\ t[1] \in {"-", "+"}
        u      == IF signed THEN Tail(t) ELSE t
        hex    == Len(u) >= 2 /\ u[1] = "0" /\ u[2] \in {"x", "X"}
        body   == IF hex THEN Tail(Tail(u)) ELSE u
        r      == ReadDigits(body, IF hex THEN 16 ELSE 10, 0, FALSE)
    IN  [nan |-> r.nan, val |-> IF neg THEN 0 - r.val ELSE r.val]

(***************************************************************************)
(* The sibling networks (iota-chains.ts, services/iota.ts)                 *)
(***************************************************************************)
IOTA_MAINNET_ID == 1074
IOTA_TESTNET_ID == 1075
IOTA_SHIMMER_ID == 148

S_iota        == <<"i","o","t","a">>
S_iotaTestnet == <<"i","o","t","a","-","t","e","s","t","n","e","t">>
S_shimmer     == <<"s","h","i","m","m","e","r">>
S_ethereum    == <<"e","t","h","e","r","e","u","m">>
S_polygon     == <<"p","o","l","y","g","o","n">>

\* The `network` field and the `id` field of the three chain definitions.
SiblingNames == {S_iota, S_iotaTestnet, S_shimmer}
SiblingIds == {IOTA_MAINNET_ID, IOTA_TESTNET_ID, IOTA_SHIMMER_ID}

\* A value of type string | number: kind tells which of s and n is meant.
StrArg(s) == [kind |-> "str", s |-> s, n |-> 0]
NumArg(n) == [kind |-> "num", s |-> <<>>, n |-> n]

\* String(x)
ToStringArg(x) ==
    IF x.kind = "str" THEN x.s
    ELSE IF x.n < 0 THEN <<"-">> \o ToDecimal(0 - x.n) ELSE ToDecimal(x.n)

\* isIOTANetwork with the name test left out for shimmer (a slip the
\* classification is checked against).
isIOTANetworkNoShimmer(x) ==
    LET parsed  == ParseInt(x.s)
        chainId == IF x.kind = "str"
                   THEN (IF parsed.nan THEN 0 ELSE parsed.val)
                   ELSE x.n
    IN  \/ chainId = IOTA_MAINNET_ID
        \/ chainId = IOTA_TESTNET_ID
        \/ chainId = IOTA_SHIMMER_ID
        \/ ToLowerCase(ToStringArg(x)) = S_iota

\* isIOTANetwork(networkOrChainId): parseInt(x) || 0 for a string, then the
\* three id tests and the two name tests.
isIOTANetwork(x) ==
    LET parsed  == ParseInt(x.s)
        chainId == IF x.kind = "str"
                   THEN (IF parsed.nan THEN 0 ELSE parsed.val)
                   ELSE x.n
    IN  \/ chainId = IOTA_MAINNET_ID
        \/ chainId = IOTA_TESTNET_ID
        \/ chainId = IOTA_SHIMMER_ID
        \/ ToLowerCase(ToStringArg(x)) = S_iota
        \/ ToLowerCase(ToStringArg(x)) = S_shimmer

(***************************************************************************)
(* Inputs of the classifier                                                *)
(***************************************************************************)
MaxChainId == 1080

NameInputs ==
    { S_iota, S_iotaTestnet, S_shimmer, S_ethereum, S_polygon, <<>>,
      <<"I","O","T","A">>, <<"I","o","t","a">>,
      <<"I","O","T","A","-","T","E","S","T","N","E","T">>,
      <<"i","o","t","a","-","T","e","s","t","n","e","t">>,
      <<"S","H","I","M","M","E","R">>, <<"S","h","i","m","m","e","r">>,
      <<"i","o","t","a"," ">>, <<"i","o","t","a","2">>,
      <<"s","h","i","m","m","e","r","-","t","e","s","t","n","e","t">> }

SampleNumbers == {0, 1, 94, 148, 149, 432, 433, 1074, 1075, 1076}
Prefixes == { <<>>, <<" ">>, <<"-">>, <<"+">>, <<"0","x">>, <<"0">> }
Suffixes == { <<>>, <<"a","b","c">>, <<" ">>, <<".","5">>, <<"0">> }

DigitInputs ==
    { p \o ToDecimal(n) \o q : p \in Prefixes, n \in SampleNumbers, q \in Suffixes }

SiblingInputs ==
    {StrArg(s) : s \in NameInputs \cup DigitInputs}
        \cup {NumArg(n) : n \in 0..MaxChainId}

(***************************************************************************)
(* The classifier as a state machine: one call of isIOTANetwork            *)
(***************************************************************************)
InitSibling ==
    /\ sibInput \in SiblingInputs
    /\ sibDone = FALSE
    /\ sibResult = FALSE
    /\ HIdle
    /\ AIdle
    /\ MIdle
    /\ CIdle
    /\ TIdle
    /\ LaterIdle

Classify ==
    /\ ~sibDone
    /\ sibDone' = TRUE
    /\ sibResult' = isIOTANetwork(sibInput)
    /\ UNCHANGED <<sibInput, notSib>>

NextSibling == Classify

SpecSibling == InitSibling /\ [][NextSibling]_vars

\* The classification the chain definitions declare: a sibling name in any
\* letter case, or a sibling chain id (the number, or its decimal numeral).
InSiblingFamily(x) ==
    IF x.kind = "str"
    THEN \/ ToLowerCase(x.s) \in SiblingNames
         \/ \E id \in SiblingIds : x.s = ToDecimal(id)
    ELSE x.n \in SiblingIds

\* C2: isIOTANetwork(x) is true exactly when x is a sibling network name,
\* ignoring letter case, or a sibling chain id, and false for every other input.
C2_ClassifiesExactlySiblings ==
    sibDone => (sibResult <=> InSiblingFamily(sibInput))

(***************************************************************************)
(* The pool registry (services/arbitrage.ts)                               *)
(***************************************************************************)
S_USDC == <<"U","S","D","C">>
S_WBTC == <<"W","B","T","C">>
S_DAI  == <<"D","A","I">>

\* TOKEN_PAIRS: token symbol -> network -> the pool's DEX.
TOKEN_PAIRS ==
    (S_USDC :> (S_iota :> "TangleSwap" @@ S_ethereum :> "Uniswap"
                    @@ S_shimmer :> "ShimmerSea"))
    @@ (S_WBTC :> (S_iota :> "TangleSwap" @@ S_ethereum :> "Uniswap"))

\* TOKEN_PAIRS[tokenSymbol] && TOKEN_PAIRS[tokenSymbol][network]
HasPool(token, network) ==
    /\ token \in DOMAIN TOKEN_PAIRS
    /\ network \in DOMAIN TOKEN_PAIRS[token]

(***************************************************************************)
(* The tool and resource handlers (iota-tools.ts, iota-resources.ts)       *)
(***************************************************************************)
\* The tools that registerIOTATools and registerArbitrageTools register.
GatedTools ==
    { "get_iota_network_info", "get_iota_balance", "transfer_iota",
      "get_iota_staking_info", "verify_iota_network_status",
      "get_iota_gas_prices", "estimate_iota_transaction_cost",
      "deploy_iota_smart_contract", "analyze_iota_smart_contract" }
UngatedTools ==
    { "get_cross_chain_token_price", "find_arbitrage_opportunities",
      "list_arbitrage_tokens" }
ToolNames == GatedTools \cup UngatedTools

\* The resources that registerIOTAResources registers.
GatedResources ==
    { "iota_network_info", "iota_token_balance", "iota_address_metrics",
      "iota_transaction", "iota_liquidity_pools",
      "iota_lending_markets", "iota_staking_opportunities",
      "iota_top_tokens", "iota_network_status" }
UngatedResources == { "default_iota_network_info", "iota_network_comparison" }
ResourceNames == GatedResources \cup UngatedResources

\* Whether the handler starts with the isIOTANetwork test.
HasGate(req) == req.name \in GatedTools \cup GatedResources

\* The network argument as the handler sees it: a tool's parameter defaults to
\* "iota" when it is absent; a resource takes params.network || "iota", so
\* that an empty string is replaced too.
EffectiveNetwork(req) ==
    IF req.surface = "tool"
    THEN (IF req.netGiven THEN req.net ELSE S_iota)
    ELSE (IF req.netGiven /\ Len(req.net) > 0 THEN req.net ELSE S_iota)

\* One step of a handler body: an RPC read that may return, reject or throw,
\* or a local computation whose outcomes are listed. swallow: the service
\* catches the failure of this step and goes on with a fallback value.
Read(op) ==
    [op |-> op, rpc |-> TRUE, outcomes |-> {"return", "reject", "throw"},
     swallow |-> FALSE]
ReadWithFallback(op) ==
    [op |-> op, rpc |-> TRUE, outcomes |-> {"return", "reject", "throw"},
     swallow |-> TRUE]
Local(op, outcomes) ==
    [op |-> op, rpc |-> FALSE, outcomes |-> outcomes, swallow |-> FALSE]

\* getPublicClient(network) of services/clients.js: it returns the client of
\* the network or throws for a network it does not know.
GetClient == Local("getPublicClient", {"return", "throw"})

\* BigInt(text) and BigInt(Math.floor(parseFloat(text) * 1e9)): a SyntaxError
\* or RangeError for a malformed numeral.
ToBigInt(op, wellFormed) ==
    Local(op, IF wellFormed THEN {"return"} ELSE {"throw"})

\* The body of estimate_iota_transaction_cost after the network test.
EstimateSteps(req) ==
    <<ToBigInt("BigInt(gasLimit)", req.gasLimitOk)>>
    \o (IF req.gasPrice \in {"absent", "empty"}
        THEN <<GetClient, Read("getGasPrice"), Read("getBlock")>>
        ELSE <<ToBigInt("BigInt(gasPrice)", req.gasPrice # "malformed")>>)
    \o <<GetClient>>
    \o (IF req.gasPrice = "zero" THEN <<Read("getGasPrice")>> ELSE <<>>)

\* The body of each tool handler after the network test, as the sequence of
\* the calls that can fail.
ToolSteps(req) ==
    CASE req.name = "get_iota_network_info" ->
            <<Read("getBlockNumber"), GetClient, ReadWithFallback("tokenInfo")>>
      [] req.name = "get_iota_balance" ->
            <<Read("resolveAddress"), GetClient, Read("getBalance")>>
      [] req.name = "transfer_iota" -> <<Read("transferETH")>>
      [] req.name = "get_iota_staking_info" ->
            <<Read("resolveAddress"), GetClient>>
      [] req.name = "verify_iota_network_status" -> <<Read("getLatestBlock")>>
      [] req.name = "get_iota_gas_prices" ->
            <<GetClient, Read("getGasPrice"), Read("getBlock")>>
      [] req.name = "estimate_iota_transaction_cost" -> EstimateSteps(req)
      [] req.name = "deploy_iota_smart_contract" ->
            <<ToBigInt("BigInt(gasLimit)", req.gasLimitOk),
              ToBigInt("BigInt(maxFeePerGas)", req.gasPrice # "malformed"),
              Read("deployIOTASmartContract")>>
      [] req.name = "analyze_iota_smart_contract" ->
            <<Read("resolveAddress"), GetClient, Read("getBytecode")>>
      [] req.name = "get_cross_chain_token_price" ->
            <<Local("poolLookup",
                    IF HasPool(req.token, req.net) THEN {"return"} ELSE {"throw"}),
              GetClient, Read("pairReads"), Read("tokenInfo0"), Read("tokenInfo1")>>
      [] req.name = "find_arbitrage_opportunities" ->
            <<Read("findArbitrageOpportunities")>>
      [] req.name = "list_arbitrage_tokens" -> <<>>

\* The body of each resource handler after the network test: one call of a
\* service that reads the chain.
ResourceSteps(req) ==
    CASE req.name \in {"iota_network_info", "default_iota_network_info",
                       "iota_network_status"} -> <<Read("getIOTANetworkMetrics")>>
      [] req.name = "iota_token_balance" -> <<Read("getIOTABalance")>>
      [] req.name = "iota_address_metrics" -> <<Read("getIOTAAddressMetrics")>>
      [] req.name = "iota_transaction" -> <<Read("analyzeIOTATransaction")>>
      [] req.name = "iota_liquidity_pools" -> <<Read("getIOTALiquidityPools")>>
      [] req.name = "iota_lending_markets" -> <<Read("getIOTALendingMarkets")>>
      [] req.name = "iota_staking_opportunities" ->
            <<Read("getIOTAStakingOpportunities")>>
      [] req.name = "iota_top_tokens" -> <<Read("getIOTATopTokens")>>
      [] req.name = "iota_network_comparison" ->
            <<Read("compareIOTAWithOtherNetworks")>>

HandlerSteps(req) ==
    IF req.surface = "tool" THEN ToolSteps(req) ELSE ResourceSteps(req)

\* Envelopes. kind "content" is a tool result, "contents" a resource result;
\* errorText tells whether the text is an "Error ..." message.
NoEnvelope == [kind |-> "none", isError |-> FALSE, errorText |-> FALSE]
SuccessEnvelope(surface) ==
    [kind |-> IF surface = "tool" THEN "content" ELSE "contents",
     isError |-> FALSE, errorText |-> FALSE]
\* What a handler returns for a refused network and from its catch block: a
\* tool sets isError, a resource returns the message in `contents` only.
ErrorEnvelope(surface) ==
    [kind |-> IF surface = "tool" THEN "content" ELSE "contents",
     isError |-> (surface = "tool"), errorText |-> TRUE]

\* A handler whose body is not inside try/catch: the failure leaves it.
Rethrow(surface) == [env |-> NoEnvelope, escaped |-> TRUE]

\* try { ... } catch (error) { return <error envelope> }: what becomes of a
\* failure inside the handler body.
OnFailure(surface) == [env |-> ErrorEnvelope(surface), escaped |-> FALSE]

(***************************************************************************)
(* Requests                                                                *)
(***************************************************************************)
NetworkArgs ==
    { S_iota, S_iotaTestnet, S_shimmer, S_ethereum, <<>>,
      <<"I","O","T","A">>, <<"1","4","8">>, <<"1","0","7","4","a","b","c">> }

\* gasPrice is the text of the gasPrice argument of
\* estimate_iota_transaction_cost and of the maxFeePerGas argument of
\* deploy_iota_smart_contract.
BaseRequest(surface, name) ==
    [surface |-> surface, name |-> name, netGiven |-> FALSE, net |-> <<>>,
     gasLimitOk |-> TRUE, gasPrice |-> "absent", token |-> <<>>]

Requests ==
    { [BaseRequest("tool", n) EXCEPT !.netGiven = g, !.net = s] :
          n \in GatedTools \ {"estimate_iota_transaction_cost",
                              "deploy_iota_smart_contract"},
          g \in {TRUE}, s \in NetworkArgs }
    \cup { BaseRequest(sf, n) :
          sf \in {"tool"}, n \in ToolNames \ {"get_cross_chain_token_price"} }
    \cup { [BaseRequest("tool", n) EXCEPT !.netGiven = TRUE, !.net = s,
                                          !.gasLimitOk = ok, !.gasPrice = gp] :
          n \in {"estimate_iota_transaction_cost", "deploy_iota_smart_contract"},
          s \in NetworkArgs, ok \in BOOLEAN,
          gp \in {"absent", "empty", "positive", "zero", "malformed"} }
    \cup { [BaseRequest("tool", "get_cross_chain_token_price")
               EXCEPT !.netGiven = TRUE, !.net = s, !.token = tk] :
          s \in NetworkArgs, tk \in {S_USDC, S_WBTC, S_DAI} }
    \cup { [BaseRequest("resource", n) EXCEPT !.netGiven = TRUE, !.net = s] :
          n \in GatedResources, s \in NetworkArgs }
    \cup { BaseRequest("resource", n) : n \in ResourceNames }

(***************************************************************************)
(* One request served by its handler                                       *)
(***************************************************************************)
\* The server calls the handler with the arguments of a request.
Dispatch ==
    /\ hPc = "idle"
    /\ \E req \in Requests :
        /\ hReq' = req
        /\ hPc' = IF HasGate(req) THEN "gate" ELSE "run"
    /\ UNCHANGED <<hStep, hRpc, hLast, hFailed, hEscaped, hEnv, notH>>

\* if (!isIOTANetwork(network)) return <error envelope>
Validate ==
    /\ hPc = "gate"
    /\ IF isIOTANetwork(StrArg(EffectiveNetwork(hReq)))
       THEN /\ hPc' = "run"
            /\ UNCHANGED <<hFailed, hEnv>>
       ELSE /\ hPc' = "done"
            /\ hFailed' = TRUE
            /\ hEnv' = ErrorEnvelope(hReq.surface)
    /\ UNCHANGED <<hReq, hStep, hRpc, hLast, hEscaped, notH>>

\* The next call of the handler body completes: it returns, or it fails and
\* either a fallback value takes its place or the failure reaches the
\* handler's catch block.
Step ==
    /\ hPc = "run"
    /\ hStep < Len(HandlerSteps(hReq))
    /\ LET st == HandlerSteps(hReq)[hStep + 1] IN
       \E out \in st.outcomes :
          /\ hRpc' = IF st.rpc THEN hRpc + 1 ELSE hRpc
          /\ hLast' = out
          /\ IF out = "return" \/ st.swallow
             THEN /\ hStep' = hStep + 1
                  /\ UNCHANGED <<hPc, hFailed, hEscaped, hEnv>>
             ELSE /\ hPc' = "done"
                  /\ hFailed' = TRUE
                  /\ hEnv' = OnFailure(hReq.surface).env
                  /\ hEscaped' = OnFailure(hReq.surface).escaped
                  /\ UNCHANGED hStep
    /\ UNCHANGED <<hReq, notH>>

\* The handler body has run to its end: it returns the result envelope.
Respond ==
    /\ hPc = "run"
    /\ hStep = Len(HandlerSteps(hReq))
    /\ hPc' = "done"
    /\ hEnv' = SuccessEnvelope(hReq.surface)
    /\ UNCHANGED <<hReq, hStep, hRpc, hLast, hFailed, hEscaped, notH>>

InitHandlers == HIdle /\ SibIdle /\ AIdle /\ MIdle /\ CIdle /\ TIdle /\ LaterIdle

NextHandlers == Dispatch \/ Validate \/ Step \/ Respond

SpecHandlers == InitHandlers /\ [][NextHandlers]_vars

(***************************************************************************)
(* The arbitrage search (services/arbitrage.ts)                            *)
(***************************************************************************)
S_WIOTA == <<"W","I","O","T","A">>
S_WETH  == <<"W","E","T","H">>

RECURSIVE Pow10(_)
Pow10(n) == IF n = 0 THEN 1 ELSE 10 * Pow10(n - 1)

\* What the reads of one pair contract and of its two tokens return:
\* getReserves, and symbol and decimals of token0 and token1. In turn: the
\* token is token0 (its symbol in lower case) at 1.0 WIOTA; it is token1 at
\* 1.05 WETH; its price in WIOTA is 0; its own reserve is 0.
PoolReads(token) ==
    { [sym0 |-> ToLowerCase(token), sym1 |-> S_WIOTA, dec0 |-> 1, dec1 |-> 1,
       r0 |-> 100, r1 |-> 100],
      [sym0 |-> S_WETH, sym1 |-> token, dec0 |-> 2, dec1 |-> 1,
       r0 |-> 1050, r1 |-> 100],
      [sym0 |-> token, sym1 |-> S_WIOTA, dec0 |-> 1, dec1 |-> 1,
       r0 |-> 100, r1 |-> 0],
      [sym0 |-> token, sym1 |-> S_WIOTA, dec0 |-> 1, dec1 |-> 1,
       r0 |-> 0, r1 |-> 100] }

\* getTokenPrice, from the reads to the quote: the token whose symbol matches
\* tokenSymbol in upper case is the target, otherwise token1 is taken to be
\* it; price = reserves[base] * 10^decimals[target] / reserves[target] in
\* units of 10^-decimals[base]. ok is FALSE when the BigInt division is by
\* zero, which throws. The price is kept as the fraction num/den that
\* parseFloat(formatUnits(num, decimals[base])) denotes.
PriceFromPool(token, pool) ==
    IF ToUpperCase(pool.sym0) = ToUpperCase(token)
    THEN [ok |-> pool.r0 # 0,
          num |-> IF pool.r0 = 0 THEN 0
                  ELSE (pool.r1 * Pow10(pool.dec0)) \div pool.r0,
          den |-> Pow10(pool.dec1),
          baseToken |-> pool.sym1]
    ELSE [ok |-> pool.r1 # 0,
          num |-> IF pool.r1 = 0 THEN 0
                  ELSE (pool.r0 * Pow10(pool.dec1)) \div pool.r1,
          den |-> Pow10(pool.dec0),
          baseToken |-> pool.sym0]

\* The quotes getTokenPrice can return for a token on a network.
Quotes(token, network) ==
    { [network |-> network, num |-> PriceFromPool(token, pool).num,
       den |-> PriceFromPool(token, pool).den,
       baseToken |-> PriceFromPool(token, pool).baseToken,
       dexName |-> TOKEN_PAIRS[token][network]] :
          pool \in {q \in PoolReads(token) : PriceFromPool(token, q).ok} }

NoQuote ==
    [network |-> <<>>, num |-> 0, den |-> 1, baseToken |-> <<>>, dexName |-> ""]

\* networks.filter(network => TOKEN_PAIRS[tokenSymbol] && TOKEN_PAIRS[tokenSymbol][network])
RECURSIVE AvailableNetworks(_, _)
AvailableNetworks(token, networks) ==
    IF networks = <<>> THEN <<>>
    ELSE (IF HasPool(token, Head(networks)) THEN <<Head(networks)>> ELSE <<>>)
            \o AvailableNetworks(token, Tail(networks))

\* The early return tested against one network instead of two.
TooFewNetworksOffByOne(available) == Len(available) < 1

\* if (availableNetworks.length < 2) return { opportunities: [] }
TooFewNetworks(available) == Len(available) < 2

\* ((sellPrice - buyPrice) / buyPrice) * 100 in floating point: the fraction
\* n/d, or Infinity (buyPrice 0, sellPrice > 0), or NaN (both 0).
ProfitPercent(buy, sell) ==
    IF buy.num = 0
    THEN [kind |-> IF sell.num > 0 THEN "inf" ELSE "nan", n |-> 0, d |-> 1]
    ELSE [kind |-> "num",
          n |-> (sell.num * buy.den - buy.num * sell.den) * 100,
          d |-> buy.num * sell.den]

\* profitPercent >= minProfitPercent, with minProfitPercent = min / 1000.
MeetsMinimum(profit, min) ==
    CASE profit.kind = "inf" -> TRUE
      [] profit.kind = "nan" -> FALSE
      [] OTHER -> profit.n * 1000 >= min * profit.d

\* Number.prototype.toFixed(2) as a count of hundredths: the nearest
\* hundredth, a tie going away from zero.
ToFixed2(profit) ==
    LET a == IF profit.n < 0 THEN 0 - profit.n ELSE profit.n
        h == (2 * a * 100 + profit.d) \div (2 * profit.d)
    IN  [inf |-> profit.kind = "inf",
         hundredths |-> IF profit.kind # "num" THEN 0
                        ELSE IF profit.n < 0 THEN 0 - h ELSE h]

\* The record pushed for the ordered pair (buy, sell) of quotes. details keeps
\* the two base tokens that the details text names.
Opportunity(buy, sell) ==
    [buyNetwork |-> buy.network,
     sellNetwork |-> sell.network,
     buyPrice |-> [num |-> buy.num, den |-> buy.den],
     sellPrice |-> [num |-> sell.num, den |-> sell.den],
     profitPercent |-> ToFixed2(ProfitPercent(buy, sell)),
     baseToken |-> buy.baseToken,
     buyDex |-> buy.dexName,
     sellDex |-> sell.dexName,
     bridgingRequired |->
         ~(isIOTANetwork(StrArg(buy.network)) /\ isIOTANetwork(StrArg(sell.network))),
     details |-> [buyBase |-> buy.baseToken, sellBase |-> sell.baseToken]]

\* The two nested loops over prices, as one loop over k = i * n + j.
RECURSIVE EnumeratePairs(_, _, _)
EnumeratePairs(prices, min, k) ==
    LET n == Len(prices)
        i == (k \div n) + 1
        j == (k % n) + 1
    IN  IF k >= n * n THEN <<>>
        ELSE (IF i # j /\ MeetsMinimum(ProfitPercent(prices[i], prices[j]), min)
              THEN <<Opportunity(prices[i], prices[j])>>
              ELSE <<>>)
                \o EnumeratePairs(prices, min, k + 1)

\* The comparator with its operands exchanged, which sorts ascending.
CompareProfitAscending(a, b) ==
    CASE a.profitPercent.inf /\ b.profitPercent.inf -> 0
      [] b.profitPercent.inf -> -1
      [] a.profitPercent.inf -> 1
      [] OTHER -> a.profitPercent.hundredths - b.profitPercent.hundredths

\* The comparator parseFloat(b.profitPercent) - parseFloat(a.profitPercent),
\* by its sign; Infinity - Infinity is NaN, which sort takes as 0.
CompareProfit(a, b) ==
    CASE a.profitPercent.inf /\ b.profitPercent.inf -> 0
      [] b.profitPercent.inf -> 1
      [] a.profitPercent.inf -> -1
      [] OTHER -> b.profitPercent.hundredths - a.profitPercent.hundredths

\* Array.prototype.sort, which is stable: x goes behind every element that
\* the comparator does not put after it.
RECURSIVE InsertSorted(_, _)
InsertSorted(x, sorted) ==
    IF sorted = <<>> THEN <<x>>
    ELSE IF CompareProfit(Head(sorted), x) <= 0
         THEN <<Head(sorted)>> \o InsertSorted(x, Tail(sorted))
         ELSE <<x>> \o sorted

RECURSIVE SortByProfit(_)
SortByProfit(opps) ==
    IF opps = <<>> THEN <<>>
    ELSE InsertSorted(opps[Len(opps)], SortByProfit(SubSeq(opps, 1, Len(opps) - 1)))

\* Inputs of the search.
MaxNets == 3

ArbNetworkNames == {S_iota, S_ethereum, S_shimmer, S_iotaTestnet}
NetworkLists == UNION {[1..n -> ArbNetworkNames] : n \in 0..MaxNets}
ArbTokens == {S_USDC, S_WBTC, S_DAI}
MinProfits == {-10000, 0, 1000}

PendingTask(network) == [state |-> "pending", quote |-> NoQuote, network |-> network]
NoResult == [status |-> "none", opportunities |-> <<>>]
NoArbEnvelope ==
    [kind |-> "none", isError |-> FALSE, found |-> 0, topOpportunities |-> <<>>]

InitArbitrage ==
    /\ aToken \in ArbTokens
    /\ aNets \in NetworkLists
    /\ aMin \in MinProfits
    /\ aPc = "idle"
    /\ aTasks = <<>>
    /\ aAsked = 0
    /\ aResult = NoResult
    /\ aEnv = NoArbEnvelope
    /\ HIdle
    /\ SibIdle
    /\ MIdle
    /\ CIdle
    /\ TIdle
    /\ LaterIdle

\* opportunities.slice(0, 3)
TopThree(opps) == SubSeq(opps, 1, IF Len(opps) < 3 THEN Len(opps) ELSE 3)

\* What the find_arbitrage_opportunities handler makes of the outcome of
\* findArbitrageOpportunities: the error envelope from its catch block, the
\* "no opportunities" message, or the count and the first three pairs.
ArbEnvelope(result) ==
    CASE result.status = "error" ->
            [kind |-> "error", isError |-> TRUE, found |-> 0,
             topOpportunities |-> <<>>]
      [] result.status = "ok" /\ Len(result.opportunities) = 0 ->
            [kind |-> "message", isError |-> FALSE, found |-> 0,
             topOpportunities |-> <<>>]
      [] OTHER ->
            [kind |-> "list", isError |-> FALSE,
             found |-> Len(result.opportunities),
             topOpportunities |-> TopThree(result.opportunities)]

\* What findArbitrageOpportunities returns once every quote is there: the
\* pairs, enumerated and sorted.
SearchResult(tasks, min) ==
    [status |-> "ok",
     opportunities |->
        SortByProfit(EnumeratePairs([k \in 1..Len(tasks) |-> tasks[k].quote], min, 0))]

\* The handler calls findArbitrageOpportunities, which runs up to its await:
\* the filter, then either the early return, which the handler answers at
\* once, or one getTokenPrice call per available network.
ArbStart ==
    /\ aPc = "idle"
    /\ LET available == AvailableNetworks(aToken, aNets) IN
       IF TooFewNetworks(available)
       THEN /\ aPc' = "done"
            /\ aResult' = [status |-> "ok", opportunities |-> <<>>]
            /\ aEnv' = ArbEnvelope([status |-> "ok", opportunities |-> <<>>])
            /\ UNCHANGED <<aTasks, aAsked>>
       ELSE /\ aPc' = "quoting"
            /\ aTasks' = [k \in 1..Len(available) |-> PendingTask(available[k])]
            /\ aAsked' = Len(available)
            /\ UNCHANGED <<aResult, aEnv>>
    /\ UNCHANGED <<aToken, aNets, aMin, notA>>

\* One getTokenPrice promise settles: it is fulfilled with a quote.
QuoteFulfilled ==
    /\ aPc = "quoting"
    /\ \E k \in 1..Len(aTasks) :
        /\ aTasks[k].state = "pending"
        /\ \E q \in Quotes(aToken, aTasks[k].network) :
              aTasks' = [aTasks EXCEPT ![k].state = "fulfilled", ![k].quote = q]
    /\ UNCHANGED <<aToken, aNets, aMin, aPc, aAsked, aResult, aEnv, notA>>

\* One getTokenPrice promise settles: a read failed or the division was by
\* zero, and getTokenPrice rethrows.
QuoteRejected ==
    /\ aPc = "quoting"
    /\ \E k \in 1..Len(aTasks) :
        /\ aTasks[k].state = "pending"
        /\ aTasks' = [aTasks EXCEPT ![k].state = "rejected"]
    /\ UNCHANGED <<aToken, aNets, aMin, aPc, aAsked, aResult, aEnv, notA>>

\* await Promise.all(pricePromises) is rejected as soon as one promise is:
\* the catch block of findArbitrageOpportunities rethrows and the handler
\* answers from its own catch block.
ArbJoinRejected ==
    /\ aPc = "quoting"
    /\ \E k \in 1..Len(aTasks) : aTasks[k].state = "rejected"
    /\ aPc' = "done"
    /\ aResult' = [status |-> "error", opportunities |-> <<>>]
    /\ aEnv' = ArbEnvelope([status |-> "error", opportunities |-> <<>>])
    /\ UNCHANGED <<aToken, aNets, aMin, aTasks, aAsked, notA>>

\* await Promise.all(pricePromises) is fulfilled when all promises are: the
\* pairs are enumerated and sorted, and the handler answers with them.
ArbJoinFulfilled ==
    /\ aPc = "quoting"
    /\ \A k \in 1..Len(aTasks) : aTasks[k].state = "fulfilled"
    /\ aPc' = "done"
    /\ aResult' = SearchResult(aTasks, aMin)
    /\ aEnv' = ArbEnvelope(SearchResult(aTasks, aMin))
    /\ UNCHANGED <<aToken, aNets, aMin, aTasks, aAsked, notA>>

NextArbitrage ==
    ArbStart \/ QuoteFulfilled \/ QuoteRejected \/ ArbJoinRejected \/ ArbJoinFulfilled

SpecArbitrage == InitArbitrage /\ [][NextArbitrage]_vars

\* C1: for every tool and every accepted argument set, whatever the reads do,
\* the handler ends with a success envelope or an envelope with isError = true,
\* and no exception leaves it: the network test always yields a boolean, and
\* the body can always go on to its next call or to its return.
C1_ToolAlwaysReturnsEnvelope ==
    hReq.surface = "tool" =>
        /\ ~hEscaped
        /\ hPc = "gate" => isIOTANetwork(StrArg(EffectiveNetwork(hReq))) \in BOOLEAN
        /\ hPc = "run" => ENABLED (Step \/ Respond)
        /\ hPc = "done" =>
              /\ hEnv.kind = "content"
              /\ hEnv.isError \/ ~hEnv.errorText

\* A tool whose read threw after an earlier call had returned, and which
\* answered with the error envelope.
C1_Witness ==
    /\ hReq.surface = "tool"
    /\ hPc = "done"
    /\ hStep > 0
    /\ hLast = "throw"
    /\ hEnv.isError

\* C3: a sibling-only tool called with a network outside the sibling family
\* issues no read and ends with the error envelope.
C3_NonSiblingNeverReads ==
    (/\ hReq.surface = "tool"
     /\ hReq.name \in GatedTools
     /\ ~InSiblingFamily(StrArg(EffectiveNetwork(hReq))))
        => /\ hRpc = 0
           /\ hPc = "done" => hEnv.isError

\* C4: every handler, tool or resource, marks a failed request (a refused
\* network or a failed read) with isError = true.
C4_FailureMarkedIsError ==
    (hPc = "done" /\ hFailed) => hEnv.isError

\* The pairs the search returned, and how its promises ended.
Emitted == {aResult.opportunities[k] : k \in 1..Len(aResult.opportunities)}
TasksIn(state) == {k \in 1..Len(aTasks) : aTasks[k].state = state}
Returned == aPc = "done"

\* C5: every emitted pair has a buy network different from its sell network,
\* whatever the candidate list, a list naming a network twice included.
C5_BuyDiffersFromSell ==
    \A opp \in Emitted : opp.buyNetwork # opp.sellNetwork

\* C6: every emitted pair reports a profitPct not below the caller's
\* minProfitPct, and minProfitPct is not below 0.
C6_ProfitAtLeastMinimum ==
    \A opp \in Emitted :
        /\ opp.profitPercent.inf \/ opp.profitPercent.hundredths * 10 >= aMin
        /\ aMin >= 0

\* C7: no pair is emitted from two quotes whose base tokens differ.
C7_SameBaseToken ==
    \A opp \in Emitted : opp.details.buyBase = opp.details.sellBase

\* C8: when one quote fails and at least two others succeed, the search
\* still returns the opportunities of the quotes it obtained.
C8_OneFailedQuoteTolerated ==
    (/\ Returned
     /\ Cardinality(TasksIn("rejected")) = 1
     /\ Cardinality(TasksIn("fulfilled")) >= 2)
        => aResult.status = "ok"

\* The entries of the candidate list that have a pool for the token.
WithPool == {k \in 1..Len(aNets) : HasPool(aToken, aNets[k])}

\* C9: when fewer than 2 candidate networks have a pool for the token, no
\* quote is requested, the search returns an empty list and the handler
\* answers without an error.
C9_TooFewPoolsEmptyNoQuote ==
    (aPc # "idle" /\ Cardinality(WithPool) < 2) =>
        /\ aAsked = 0
        /\ aTasks = <<>>
        /\ aResult = [status |-> "ok", opportunities |-> <<>>]
        /\ aPc = "done" => (aEnv.kind = "message" /\ ~aEnv.isError)

\* A search over two or more candidates of which exactly one has a pool,
\* answered with the "no opportunities" message.
C9_Witness ==
    /\ aPc = "done"
    /\ Len(aNets) >= 2
    /\ Cardinality(WithPool) = 1
    /\ aEnv.kind = "message"

\* C10: bridgingRequired is true exactly when the buy and the sell network
\* are not both in the sibling family.
C10_BridgingIffNotBothSiblings ==
    \A opp \in Emitted :
        opp.bridgingRequired <=>
            ~(/\ InSiblingFamily(StrArg(opp.buyNetwork))
              /\ InSiblingFamily(StrArg(opp.sellNetwork)))

\* A returned list with a pair between two different sibling networks, which
\* needs no bridging, and a pair that leaves the family, which does.
C10_Witness ==
    /\ aPc = "done"
    /\ \E opp \in Emitted :
          /\ ~opp.bridgingRequired
          /\ opp.buyNetwork # opp.sellNetwork
    /\ \E opp \in Emitted : opp.bridgingRequired

\* Whether the reported profit a is at least, or more than, the reported
\* profit b: Infinity is the greatest value, and equal to itself.
ProfitGeq(a, b) == a.inf \/ (~b.inf /\ a.hundredths >= b.hundredths)
ProfitGt(a, b) == ~ProfitGeq(b, a)

\* How many entries of the sequence s satisfy Test.
CountIn(s, Test(_)) == Cardinality({k \in 1..Len(s) : Test(s[k])})

\* C11: the preview of find_arbitrage_opportunities holds min(3, n) of the n
\* emitted pairs, each pair no more often than it was emitted, in
\* non-increasing order of profit, and no emitted pair outside the preview has
\* a greater profit than a pair inside it.
C11_PreviewIsTopThreeSorted ==
    aEnv.kind = "list" =>
        LET top == aEnv.topOpportunities
            all == aResult.opportunities
            n   == Len(all)
        IN  /\ aEnv.found = n
            /\ Len(top) = IF n < 3 THEN n ELSE 3
            /\ \A i \in 1..Len(top) :
                  LET SameAsTop(o) == o = top[i]
                      Greater(o) == ProfitGt(o.profitPercent, top[i].profitPercent)
                  IN  /\ CountIn(top, SameAsTop) <= CountIn(all, SameAsTop)
                      /\ CountIn(all, Greater) < i
            /\ \A i \in 1..Len(top) : \A j \in i..Len(top) :
                  ProfitGeq(top[i].profitPercent, top[j].profitPercent)

\* A preview cut out of four or more emitted pairs whose profits are not all
\* the same, one of them left out for its smaller profit.
C11_Witness ==
    /\ aEnv.kind = "list"
    /\ Len(aResult.opportunities) >= 4
    /\ Len(aEnv.topOpportunities) = 3
    /\ ProfitGt(aEnv.topOpportunities[1].profitPercent,
                aEnv.topOpportunities[3].profitPercent)
    /\ \E o \in Emitted :
          ProfitGt(aEnv.topOpportunities[3].profitPercent, o.profitPercent)

(***************************************************************************)
(* Network metrics (services/iota-metrics.ts, the batched gather)          *)
(***************************************************************************)
batchSize == 5

\* Math.ceil(a / b) for a >= 0 and b > 0.
CeilDiv(a, b) == (a + b - 1) \div b

\* x.toFixed(2) read back by parseFloat, for x = n / d with d > 0, as a count
\* of hundredths: the nearest hundredth, a tie going away from zero.
RoundHundredths(n, d) ==
    LET a == IF n < 0 THEN 0 - n ELSE n
        h == (2 * a * 100 + d) \div (2 * d)
    IN  IF n < 0 THEN 0 - h ELSE h

\* The chains the gather is run against, as what getBlockByNumber returns for
\* block n: chain 1 makes a block every 2 seconds, chain 2 at growing
\* intervals and without a gasLimit, chain 3 gives all its blocks one
\* timestamp. Timestamps never decrease with the block number.
ChainIds == {1, 2, 3}
BlockAt(chain, n) ==
    [number    |-> n,
     timestamp |-> CASE chain = 1 -> 1000 + 2 * n
                     [] chain = 2 -> 1000 + n * n
                     [] OTHER -> 1000,
     txCount   |-> (n + chain) % 3,
     gasUsed   |-> 10 * ((n + chain) % 4),
     gasLimit  |-> IF chain = 2 THEN 0 ELSE 100]

\* The block numbers that batch batchIndex asks for: the inner loop stops at
\* blockIndex >= blockSampleSize and at blockNumber <= 0.
BatchNumbers(blockHeight, blockSampleSize, batchIndex) ==
    LET Asked(i) == /\ batchIndex * batchSize + i < blockSampleSize
                    /\ blockHeight - (batchIndex * batchSize + i) > 0
        n == Cardinality({i \in 0..(batchSize - 1) : Asked(i)})
    IN  [k \in 1..n |-> blockHeight - (batchIndex * batchSize + (k - 1))]

\* The loop over blocks with the difference taken the other way round.
RECURSIVE TotalsReversed(_, _, _)
TotalsReversed(blocks, k, acc) ==
    IF k > Len(blocks) THEN acc
    ELSE TotalsReversed(blocks, k + 1,
            [totalGasUsed |-> acc.totalGasUsed + blocks[k].gasUsed,
             totalTransactions |-> acc.totalTransactions + blocks[k].txCount,
             totalBlockTime |->
                 IF acc.previousTimestamp > 0
                 THEN acc.totalBlockTime
                        + (blocks[k].timestamp - acc.previousTimestamp)
                 ELSE acc.totalBlockTime,
             previousTimestamp |-> blocks[k].timestamp])

\* for (const block of blocks): the running totals after blocks k, k+1, ...
RECURSIVE Totals(_, _, _)
Totals(blocks, k, acc) ==
    IF k > Len(blocks) THEN acc
    ELSE Totals(blocks, k + 1,
            [totalGasUsed |-> acc.totalGasUsed + blocks[k].gasUsed,
             totalTransactions |-> acc.totalTransactions + blocks[k].txCount,
             totalBlockTime |->
                 IF acc.previousTimestamp > 0
                 THEN acc.totalBlockTime
                        + (acc.previousTimestamp - blocks[k].timestamp)
                 ELSE acc.totalBlockTime,
             previousTimestamp |-> blocks[k].timestamp])

ZeroTotals ==
    [totalGasUsed |-> 0, totalTransactions |-> 0, totalBlockTime |-> 0,
     previousTimestamp |-> 0]

\* blockHeight ? blockHeight.toString() : "unknown", with -1 for "unknown".
BlockHeightText(blockHeight) == IF blockHeight # 0 THEN blockHeight ELSE -1

\* The record returned from the outer catch block.
DefaultMetrics(network) ==
    [status |-> "returned", networkName |-> network, blockHeight |-> -1,
     recentTPS |-> 0, averageBlockTime |-> 0, averageGasUsed |-> 0,
     averageTxPerBlock |-> 0, totalTransactions |-> 0, gasPrice |-> 0,
     networkUtilization |-> [fixed |-> FALSE, hundredths |-> 0],
     isHealthy |-> FALSE, tokenInfo |-> "fallback"]

\* The record returned when blockCount === 0.
EmptyMetrics(network, blockHeight, tokenInfo) ==
    [status |-> "returned", networkName |-> network,
     blockHeight |-> BlockHeightText(blockHeight),
     recentTPS |-> 0, averageBlockTime |-> 0, averageGasUsed |-> 0,
     averageTxPerBlock |-> 0, totalTransactions |-> 0, gasPrice |-> 0,
     networkUtilization |-> [fixed |-> FALSE, hundredths |-> 0],
     isHealthy |-> FALSE, tokenInfo |-> tokenInfo]

\* The record computed from a non-empty array blocks. gasPrice is what
\* getGasPrice returned, 0 when it failed; now is Date.now() in seconds.
\* networkUtilization is "0%" (fixed FALSE) or a toFixed(2) text.
ComputedMetrics(network, blockHeight, tokenInfo, blocks, gasPrice, now) ==
    LET t == Totals(blocks, 1, ZeroTotals)
        blockCount == Len(blocks)
        \* averageBlockTime = abtN / abtD, averageTxPerBlock = t.tx / blockCount
        abtN == IF blockCount > 1 THEN t.totalBlockTime ELSE 0
        abtD == IF blockCount > 1 THEN blockCount - 1 ELSE 1
        latestBlockTimestamp == blocks[1].timestamp
    IN  [status |-> "returned", networkName |-> network,
         blockHeight |-> BlockHeightText(blockHeight),
         recentTPS |->
             IF abtN > 0
             THEN RoundHundredths(t.totalTransactions * abtD, blockCount * abtN)
             ELSE 0,
         averageBlockTime |-> RoundHundredths(abtN, abtD),
         averageGasUsed |-> t.totalGasUsed \div blockCount,
         averageTxPerBlock |-> RoundHundredths(t.totalTransactions, blockCount),
         totalTransactions |-> t.totalTransactions,
         gasPrice |-> gasPrice,
         networkUtilization |->
             IF blocks[1].gasLimit # 0
             THEN [fixed |-> TRUE,
                   hundredths |-> RoundHundredths(t.totalGasUsed * 100,
                                                  blocks[1].gasLimit * blockCount)]
             ELSE [fixed |-> FALSE, hundredths |-> 0],
         isHealthy |-> latestBlockTimestamp > 0 /\ now - latestBlockTimestamp < 60,
         tokenInfo |-> tokenInfo]

\* Inputs of the gather.
MaxHeight == 11
MaxSample == 11

MetricsNetworks == {S_iota, S_shimmer, S_ethereum}
\* What getGasPrice returns, 0 standing for its failure.
GasPriceReads == {0, 7}
\* How old the chain's latest block is when Date.now() is read.
BlockAges == {30, 90}

InitMetrics ==
    /\ mIn \in [network : MetricsNetworks, blockSampleSize : 0..MaxSample,
                blockHeight : 0..MaxHeight, chain : ChainIds]
    /\ mPc = "idle"
    /\ mToken = "none"
    /\ mBatch = 0
    /\ mOutcomes = <<>>
    /\ mBlocks = <<>>
    /\ mResult = NoMetrics
    /\ mSecond = NoMetrics
    /\ SibIdle
    /\ HIdle
    /\ AIdle
    /\ CIdle
    /\ TIdle
    /\ LaterIdle

\* The call up to the batch loop: the network test, which throws; then
\* getPublicClient and getLatestBlock, whose failure the outer catch turns
\* into the default record; then getIOTATokenInfo with its fallback.
MetricsBegin ==
    /\ mPc = "idle"
    /\ IF ~isIOTANetwork(StrArg(mIn.network))
       THEN /\ mPc' = "done"
            /\ mResult' = [NoMetrics EXCEPT !.status = "thrown"]
            /\ UNCHANGED mToken
       ELSE \E latest \in {"return", "reject"} :
               IF latest = "reject"
               THEN /\ mPc' = "done"
                    /\ mResult' = DefaultMetrics(mIn.network)
                    /\ UNCHANGED mToken
               ELSE /\ mPc' = "batching"
                    /\ mToken' \in {"read", "fallback"}
                    /\ UNCHANGED mResult
    /\ UNCHANGED <<mIn, mBatch, mOutcomes, mBlocks, mSecond, notM>>

\* await Promise.all(batchPromises) is fulfilled: blocks.push(...batchBlocks).
BatchFulfilled ==
    /\ mPc = "batching"
    /\ mBatch < CeilDiv(mIn.blockSampleSize, batchSize)
    /\ LET numbers == BatchNumbers(mIn.blockHeight, mIn.blockSampleSize, mBatch)
       IN  mBlocks' = mBlocks \o [k \in 1..Len(numbers) |-> BlockAt(mIn.chain, numbers[k])]
    /\ mOutcomes' = Append(mOutcomes, "fulfilled")
    /\ mBatch' = mBatch + 1
    /\ UNCHANGED <<mIn, mPc, mToken, mResult, mSecond, notM>>

\* A rejected batch taken as the failure of the whole call: the outer catch
\* block returns the default record.
BatchRejectedAborts ==
    /\ mPc = "batching"
    /\ mBatch < CeilDiv(mIn.blockSampleSize, batchSize)
    /\ BatchNumbers(mIn.blockHeight, mIn.blockSampleSize, mBatch) # <<>>
    /\ mOutcomes' = Append(mOutcomes, "rejected")
    /\ mPc' = "done"
    /\ mResult' = DefaultMetrics(mIn.network)
    /\ UNCHANGED <<mIn, mToken, mBatch, mBlocks, mSecond, notM>>

\* await Promise.all(batchPromises) is rejected, one of its reads having
\* failed: the catch block logs, and the loop goes on to the next batch.
BatchRejected ==
    /\ mPc = "batching"
    /\ mBatch < CeilDiv(mIn.blockSampleSize, batchSize)
    /\ BatchNumbers(mIn.blockHeight, mIn.blockSampleSize, mBatch) # <<>>
    /\ mOutcomes' = Append(mOutcomes, "rejected")
    /\ mBatch' = mBatch + 1
    /\ UNCHANGED <<mIn, mPc, mToken, mBlocks, mResult, mSecond, notM>>

\* What a call returns after its batch loop, over the blocks it has got.
MetricsOver(blocks, tokenInfo, gasPrice, now) ==
    IF Len(blocks) = 0
    THEN EmptyMetrics(mIn.network, mIn.blockHeight, tokenInfo)
    ELSE ComputedMetrics(mIn.network, mIn.blockHeight, tokenInfo, blocks,
                         gasPrice, now)

\* After the last batch: the totals, the averages, the health test against
\* Date.now(), getGasPrice with its fallback, and the return.
MetricsFinish ==
    /\ mPc = "batching"
    /\ mBatch = CeilDiv(mIn.blockSampleSize, batchSize)
    /\ \E gasPrice \in GasPriceReads, age \in BlockAges :
          mResult' = MetricsOver(mBlocks, mToken, gasPrice,
                                 BlockAt(mIn.chain, mIn.blockHeight).timestamp + age)
    /\ mPc' = "done"
    /\ UNCHANGED <<mIn, mToken, mBatch, mOutcomes, mBlocks, mSecond, notM>>

\* A second call of getIOTANetworkMetrics with the same arguments, whose
\* block reads return what the first call's block reads returned.
MetricsAgain ==
    /\ mPc = "done"
    /\ mResult.status = "returned"
    /\ mBatch = CeilDiv(mIn.blockSampleSize, batchSize)
    /\ mOutcomes # <<>>          \* the first call went through its batch loop
    /\ mSecond.status = "none"
    /\ \E tokenInfo \in {"read", "fallback"}, gasPrice \in GasPriceReads,
          age \in BlockAges :
          mSecond' = MetricsOver(mBlocks, tokenInfo, gasPrice,
                                 BlockAt(mIn.chain, mIn.blockHeight).timestamp + age)
    /\ UNCHANGED <<mIn, mPc, mToken, mBatch, mOutcomes, mBlocks, mResult, notM>>

NextMetrics ==
    MetricsBegin \/ BatchFulfilled \/ BatchRejected \/ MetricsFinish \/ MetricsAgain

SpecMetrics == InitMetrics /\ [][NextMetrics]_vars

\* A call of the gather that has gone through its batch loop and returned.
Gathered == mPc = "done" /\ mOutcomes # <<>>

\* C12: when the gather ends with fewer than 2 usable blocks, the reported
\* rates recentTPS and averageBlockTime are 0 and isHealthy is false.
C12_FewBlocksZeroAndUnhealthy ==
    (Gathered /\ Len(mBlocks) < 2) =>
        /\ mResult.recentTPS = 0
        /\ mResult.averageBlockTime = 0
        /\ ~mResult.isHealthy

\* Whether block n is a block of a fulfilled batch, worked out from the
\* arguments and from how each batch ended.
InFulfilledBatch(n) ==
    LET j == mIn.blockHeight - n
    IN  /\ n > 0
        /\ j >= 0
        /\ j < mIn.blockSampleSize
        /\ (j \div batchSize) + 1 <= Len(mOutcomes)
        /\ mOutcomes[(j \div batchSize) + 1] = "fulfilled"

BlocksOfFulfilledBatches == {n \in 1..mIn.blockHeight : InFulfilledBatch(n)}

\* The sum of one field over the blocks 1..n that are in a fulfilled batch.
RECURSIVE SumOver(_, _)
SumOver(n, field) ==
    IF n = 0 THEN 0
    ELSE (IF InFulfilledBatch(n) THEN BlockAt(mIn.chain, n)[field] ELSE 0)
            + SumOver(n - 1, field)

\* C13: a rejected batch drops its own blocks only. The loop goes on to
\* every remaining batch, the call returns a record instead of failing, and
\* the record is computed over exactly the blocks of the fulfilled batches.
C13_FailedBatchOnlyDropsItsBlocks ==
    /\ mPc = "batching" =>
          /\ Len(mOutcomes) = mBatch
          /\ mBatch <= CeilDiv(mIn.blockSampleSize, batchSize)
          /\ mBatch < CeilDiv(mIn.blockSampleSize, batchSize) => ENABLED BatchFulfilled
    /\ Gathered =>
          LET K == Cardinality(BlocksOfFulfilledBatches)
          IN  /\ Len(mOutcomes) = CeilDiv(mIn.blockSampleSize, batchSize)
              /\ mResult.status = "returned"
              /\ Len(mBlocks) = K
              /\ {mBlocks[k].number : k \in 1..Len(mBlocks)} = BlocksOfFulfilledBatches
              /\ mResult.totalTransactions = SumOver(mIn.blockHeight, "txCount")
              /\ K > 0 => mResult.averageGasUsed
                            = SumOver(mIn.blockHeight, "gasUsed") \div K
              /\ K > 0 => mResult.averageTxPerBlock
                            = RoundHundredths(SumOver(mIn.blockHeight, "txCount"), K)

\* A gather whose first batch was rejected and whose later batches brought
\* two blocks or more, from which the record was computed.
C13_Witness ==
    /\ Gathered
    /\ Len(mOutcomes) >= 2
    /\ mOutcomes[1] = "rejected"
    /\ Len(mBlocks) >= 2
    /\ mResult.totalTransactions > 0

\* The timestamps of the usable blocks in ascending order.
RECURSIVE InsertAscending(_, _)
InsertAscending(x, sorted) ==
    IF sorted = <<>> THEN <<x>>
    ELSE IF Head(sorted) <= x
         THEN <<Head(sorted)>> \o InsertAscending(x, Tail(sorted))
         ELSE <<x>> \o sorted

RECURSIVE AscendingTimestamps(_)
AscendingTimestamps(blocks) ==
    IF blocks = <<>> THEN <<>>
    ELSE InsertAscending(Head(blocks).timestamp, AscendingTimestamps(Tail(blocks)))

RECURSIVE SumOfDifferences(_)
SumOfDifferences(ts) ==
    IF Len(ts) < 2 THEN 0
    ELSE (ts[2] - ts[1]) + SumOfDifferences(Tail(ts))

\* C14: with K >= 2 usable blocks, the reported averageBlockTime is the sum of
\* the differences between consecutive timestamps of the usable blocks, in
\* ascending order, divided by K - 1 (to the two decimals that are reported),
\* whichever batches were obtained.
C14_AverageBlockTimeOverSortedTimestamps ==
    (Gathered /\ Len(mBlocks) >= 2) =>
        mResult.averageBlockTime
            = RoundHundredths(SumOfDifferences(AscendingTimestamps(mBlocks)),
                              Len(mBlocks) - 1)

\* A gather that lost its second batch of three, so that the usable blocks
\* are not consecutive, on a chain whose block intervals differ.
C14_Witness ==
    /\ Gathered
    /\ mIn.chain = 2
    /\ mOutcomes = <<"fulfilled", "rejected", "fulfilled">>
    /\ Len(mBlocks) >= 6
    /\ mResult.averageBlockTime > 0

\* C17: a second call that observes the same blocks returns the same value
\* in every field of the metrics record.
C17_SameBlocksSameMetrics ==
    mSecond.status = "returned" => mSecond = mResult

(***************************************************************************)
(* Network comparison (compareIOTAWithOtherNetworks)                       *)
(*                                                                         *)
(* The repository holds two revisions of services/iota-metrics.ts:         *)
(* "guarded" wraps the body in try/catch and pushes a placeholder for a    *)
(* network whose gather throws; "unguarded" has no outer try/catch and     *)
(* only logs in the loop's catch block.                                    *)
(***************************************************************************)
Revisions == {"guarded", "unguarded"}

\* The five latest blocks of a chain of height 5, as a gather with
\* blockSampleSize 5 fetches them.
SampleBlocks(chain) == [k \in 1..batchSize |-> BlockAt(chain, batchSize + 1 - k)]

\* How a call getIOTANetworkMetrics(network, 5) can end. A network that is not
\* an IOTA network makes it throw. Otherwise the guarded revision returns the
\* computed record, or the default record when a read failed; the unguarded
\* revision returns the computed record or throws when a read failed. The
\* records are those of chains 1 and 2, which both revisions compute alike.
GatherOutcomes(revision, network) ==
    LET computed ==
            {[threw |-> FALSE,
              metrics |-> ComputedMetrics(network, batchSize, "read",
                              SampleBlocks(c), 7,
                              BlockAt(c, batchSize).timestamp + 30)] : c \in {1, 2}}
        thrown == {[threw |-> TRUE, metrics |-> NoMetrics]}
    IN  IF ~isIOTANetwork(StrArg(network)) THEN thrown
        ELSE IF revision = "guarded"
             THEN computed \cup {[threw |-> FALSE, metrics |-> DefaultMetrics(network)]}
             ELSE computed \cup thrown

\* The object pushed to comparisonNetworks for a gather that returned, and
\* the first element of allNetworksForRanking.
EntryOf(network, metrics) ==
    [networkName |-> network, recentTPS |-> metrics.recentTPS,
     averageBlockTime |-> metrics.averageBlockTime,
     gasPrice |-> metrics.gasPrice,
     networkUtilization |-> metrics.networkUtilization]

\* The placeholder pushed for a gather that threw.
Placeholder(network) ==
    [networkName |-> network, recentTPS |-> 0, averageBlockTime |-> 0,
     gasPrice |-> 0, networkUtilization |-> [fixed |-> FALSE, hundredths |-> 0]]

\* Array.prototype.sort with the comparator a.key - b.key, or b.key - a.key
\* when descending; the sort is stable.
RECURSIVE InsertRanked(_, _, _)
InsertRanked(x, sorted, descending) ==
    IF sorted = <<>> THEN <<x>>
    ELSE IF (IF descending THEN x.key - Head(sorted).key
                           ELSE Head(sorted).key - x.key) <= 0
         THEN <<Head(sorted)>> \o InsertRanked(x, Tail(sorted), descending)
         ELSE <<x>> \o sorted

RECURSIVE SortRanked(_, _)
SortRanked(entries, descending) ==
    IF entries = <<>> THEN <<>>
    ELSE InsertRanked(entries[Len(entries)],
                      SortRanked(SubSeq(entries, 1, Len(entries) - 1), descending),
                      descending)

\* One ranking: map to the sort key, sort, map to {network, value}.
\* Number(gasPrice) and parseFloat(networkUtilization.replace("%", "")) are
\* the numbers the texts denote.
Ranking(all, field, descending) ==
    LET keyed == [k \in 1..Len(all) |->
                    [network |-> all[k].networkName,
                     key |-> IF field = "networkUtilization"
                             THEN all[k][field].hundredths ELSE all[k][field],
                     value |-> all[k][field]]]
        sorted == SortRanked(keyed, descending)
    IN  [k \in 1..Len(sorted) |-> [network |-> sorted[k].network,
                                   value |-> sorted[k].value]]

\* The value returned after the loop.
Comparison(iotaNetwork, iotaMetrics, comparisonNetworks) ==
    LET allNetworksForRanking ==
            <<EntryOf(iotaNetwork, iotaMetrics)>> \o comparisonNetworks
    IN  [status |-> "returned",
         tpsRanking |-> Ranking(allNetworksForRanking, "recentTPS", TRUE),
         blockTimeRanking |-> Ranking(allNetworksForRanking, "averageBlockTime", FALSE),
         gasPriceRanking |-> Ranking(allNetworksForRanking, "gasPrice", FALSE),
         utilizationRanking |->
             Ranking(allNetworksForRanking, "networkUtilization", TRUE)]

\* The value returned from the outer catch block of the guarded revision.
EmptyComparison == [NoComparison EXCEPT !.status = "returned"]

\* Inputs of the comparison.
MaxCompare == 2

CompareNames == {S_iota, S_iotaTestnet, S_ethereum, S_polygon}

InitCompare ==
    /\ cIn \in [iotaNetwork : {S_iota, S_shimmer, S_iotaTestnet, S_ethereum},
                compareNetworks : UNION {[1..n -> CompareNames] : n \in 0..MaxCompare},
                revision : Revisions]
    /\ cPc = "idle"
    /\ cIndex = 0
    /\ cStarted = {}
    /\ cSettled = {}
    /\ cThrew = {}
    /\ cPrimary = NoMetrics
    /\ cList = <<>>
    /\ cResult = NoComparison
    /\ SibIdle
    /\ HIdle
    /\ AIdle
    /\ MIdle
    /\ TIdle
    /\ LaterIdle

\* The network whose gather has index k: iotaNetwork, then compareNetworks.
GatherNetwork(k) == IF k = 0 THEN cIn.iotaNetwork ELSE cIn.compareNetworks[k]

\* The call up to its first await: the test of iotaNetwork, whose throw the
\* guarded revision catches and the unguarded revision lets out, and the
\* call getIOTANetworkMetrics(iotaNetwork).
CompareBegin ==
    /\ cPc = "idle"
    /\ IF ~isIOTANetwork(StrArg(cIn.iotaNetwork))
       THEN /\ cPc' = "done"
            /\ cResult' = IF cIn.revision = "guarded" THEN EmptyComparison
                          ELSE [NoComparison EXCEPT !.status = "thrown"]
            /\ UNCHANGED cStarted
       ELSE /\ cPc' = "awaiting"
            /\ cStarted' = {0}
            /\ UNCHANGED cResult
    /\ UNCHANGED <<cIn, cIndex, cSettled, cThrew, cPrimary, cList, notC>>

\* The awaited gather settles, and the function runs on to its next await or
\* to its return: it keeps iotaMetrics or pushes to comparisonNetworks, then
\* calls the gather of the next network or builds the rankings.
GatherSettles ==
    /\ cPc = "awaiting"
    /\ \E out \in GatherOutcomes(cIn.revision, GatherNetwork(cIndex)) :
        LET network == GatherNetwork(cIndex)
            list == IF cIndex = 0 THEN cList
                    ELSE IF ~out.threw THEN Append(cList, EntryOf(network, out.metrics))
                    ELSE IF cIn.revision = "guarded"
                         THEN Append(cList, Placeholder(network))
                         ELSE cList
            primary == IF cIndex = 0 THEN out.metrics ELSE cPrimary
        IN  /\ cSettled' = cSettled \cup {cIndex}
            /\ cThrew' = IF out.threw THEN cThrew \cup {cIndex} ELSE cThrew
            /\ cPrimary' = primary
            /\ cList' = list
            /\ IF cIndex = 0 /\ out.threw
               THEN /\ cPc' = "done"
                    /\ cResult' = [NoComparison EXCEPT !.status = "thrown"]
                    /\ UNCHANGED <<cIndex, cStarted>>
               ELSE IF cIndex = Len(cIn.compareNetworks)
               THEN /\ cPc' = "done"
                    /\ cResult' = Comparison(cIn.iotaNetwork, primary, list)
                    /\ UNCHANGED <<cIndex, cStarted>>
               ELSE /\ cIndex' = cIndex + 1
                    /\ cStarted' = cStarted \cup {cIndex + 1}
                    /\ UNCHANGED <<cPc, cResult>>
    /\ UNCHANGED <<cIn, notC>>

NextCompare == CompareBegin \/ GatherSettles

SpecCompare == InitCompare /\ [][NextCompare]_vars

\* Whether the ranking has one entry for each requested network, with the
\* value zero for each network whose gather threw.
RanksAll(ranking, zero) ==
    /\ Len(ranking) = 1 + Len(cIn.compareNetworks)
    /\ \A k \in 0..Len(cIn.compareNetworks) :
        /\ \E r \in 1..Len(ranking) : ranking[r].network = GatherNetwork(k)
        /\ k \in cThrew =>
             \E r \in 1..Len(ranking) :
                /\ ranking[r].network = GatherNetwork(k)
                /\ ranking[r].value = zero

\* C15: when the comparison is over, every requested network, iotaNetwork
\* and each entry of compareNetworks, is in each of the four rankings, and a
\* network whose gather threw is there with the value zero.
C15_FailedNetworkRankedWithZeros ==
    cPc = "done" =>
        /\ cResult.status = "returned"
        /\ RanksAll(cResult.tpsRanking, 0)
        /\ RanksAll(cResult.blockTimeRanking, 0)
        /\ RanksAll(cResult.gasPriceRanking, 0)
        /\ RanksAll(cResult.utilizationRanking, [fixed |-> FALSE, hundredths |-> 0])

\* C16: the gathers of all networks are in flight together: by the time the
\* first of them has settled, the gather of every network has been called.
C16_GathersStartedTogether ==
    cSettled # {} => cStarted = 0..Len(cIn.compareNetworks)

(***************************************************************************)
(* Transaction analysis (analyzeIOTATransaction)                           *)
(***************************************************************************)
\* String.prototype.startsWith.
StartsWith(s, prefix) ==
    Len(s) >= Len(prefix) /\ SubSeq(s, 1, Len(prefix)) = prefix

\* Whether a JavaScript value is truthy: a non-empty string.
Truthy(v) == v.kind = "str" /\ Len(v.s) > 0

S_0x == <<"0","x">>
S_0x0 == <<"0","x","0">>
S_transfer == <<"0","x","a","9","0","5","9","c","b","b">>
S_transferFrom == <<"0","x","2","3","b","8","7","2","d","d">>
S_safeTransferFrom == <<"0","x","f","2","4","2","4","3","2","a">>
S_approve == <<"0","x","0","9","5","e","a","7","b","3">>

\* txData: transaction.data if it is truthy, else transaction.input if it is
\* truthy, else "".
TxData(tx) ==
    IF Truthy(tx.data) THEN tx.data.s
    ELSE IF Truthy(tx.input) THEN tx.input.s
    ELSE <<>>

\* !transaction.to || transaction.to === "0x" || transaction.to === null
NoRecipient(to) == ~Truthy(to) \/ to = Str(S_0x)

\* The chain of tests without its last two branches: a transaction that no
\* selector test matches keeps the initial "Unknown".
TransactionTypeNoDefault(tx) ==
    LET txData == TxData(tx)
    IN  IF txData = <<>> \/ txData = S_0x \/ txData = S_0x0
        THEN "Native Token Transfer"
        ELSE IF StartsWith(txData, S_transfer) THEN "ERC20 Token Transfer"
        ELSE IF StartsWith(txData, S_transferFrom) THEN "ERC721 NFT Transfer"
        ELSE IF StartsWith(txData, S_safeTransferFrom) THEN "ERC1155 Token Transfer"
        ELSE IF StartsWith(txData, S_approve) THEN "Token Approval"
        ELSE "Unknown"

\* transactionType, by the chain of tests in the order of the code.
TransactionType(tx) ==
    LET txData == TxData(tx)
    IN  IF txData = <<>> \/ txData = S_0x \/ txData = S_0x0
        THEN "Native Token Transfer"
        ELSE IF StartsWith(txData, S_transfer) THEN "ERC20 Token Transfer"
        ELSE IF StartsWith(txData, S_transferFrom) THEN "ERC721 NFT Transfer"
        ELSE IF StartsWith(txData, S_safeTransferFrom) THEN "ERC1155 Token Transfer"
        ELSE IF StartsWith(txData, S_approve) THEN "Token Approval"
        ELSE IF NoRecipient(tx.to) THEN "Contract Deployment"
        ELSE "Contract Interaction"

\* gasLimit > 0 ? Math.round((gasUsed / gasLimit) * 100) : 0
GasUsedPercentage(gasUsed, gasLimit) ==
    IF gasLimit > 0 THEN (2 * gasUsed * 100 + gasLimit) \div (2 * gasLimit) ELSE 0

\* gasEfficiency, from the rounded percentage.
GasEfficiency(gasUsedPercentage) ==
    IF gasUsedPercentage < 60 THEN "Excellent"
    ELSE IF gasUsedPercentage < 80 THEN "Good"
    ELSE IF gasUsedPercentage < 95 THEN "Fair"
    ELSE "Poor"

\* Inputs of the analysis: what getTransaction and getTransactionReceipt
\* return. A receipt's gasUsed does not exceed the transaction's gas.
MaxGas == 19

CallData ==
    { <<>>, S_0x, S_0x0,
      S_transfer \o <<"0","0">>, S_transferFrom \o <<"0","0">>,
      S_safeTransferFrom, S_approve \o <<"f","f">>,
      <<"0","x","6","0","8","0","6","0","4","0">>, <<"0","x","1","2","3","4","5","6","7","8">>, <<"0","x","a","9">> }
DataValues == {Undefined} \cup {Str(s) : s \in CallData}
InputValues == {Undefined, Str(S_transfer \o <<"0","0">>), Str(<<"0","x","6","0","8","0","6","0","4","0">>)}
Recipients == {Undefined, Null, Str(<<>>), Str(S_0x), Str(<<"0","x","a","b","c">>)}

InitTx ==
    /\ tIn \in {[network |-> n, data |-> d, input |-> i, to |-> x,
                 gasUsed |-> u, gas |-> g] :
                    n \in {S_iota, S_ethereum}, d \in DataValues,
                    i \in InputValues, x \in Recipients,
                    u \in {0, MaxGas - 1}, g \in {0, MaxGas}}
          \cup {[network |-> S_iota, data |-> Str(<<"0","x","1","2","3","4","5","6","7","8">>), input |-> Undefined,
                 to |-> Str(<<"0","x","a","b","c">>), gasUsed |-> u, gas |-> g] :
                    g \in 0..MaxGas, u \in 0..MaxGas}
    /\ tIn.gasUsed <= tIn.gas \/ tIn.gas = 0
    /\ tPc = "idle"
    /\ tResult = NoAnalysis
    /\ SibIdle
    /\ HIdle
    /\ AIdle
    /\ MIdle
    /\ CIdle
    /\ LaterIdle

\* analyzeIOTATransaction: the network test and the reads, whose failure the
\* catch block rethrows, then the type, the gas efficiency and the return.
Analyze ==
    /\ tPc = "idle"
    /\ tPc' = "done"
    /\ IF ~isIOTANetwork(StrArg(tIn.network))
       THEN tResult' = [NoAnalysis EXCEPT !.status = "thrown"]
       ELSE \E reads \in {"return", "reject"} :
               tResult' =
                   IF reads = "reject"
                   THEN [NoAnalysis EXCEPT !.status = "thrown"]
                   ELSE [status |-> "returned",
                         transactionType |-> TransactionType(tIn),
                         gasEfficiency |->
                             GasEfficiency(GasUsedPercentage(tIn.gasUsed, tIn.gas)),
                         gasUsedPercentage |-> GasUsedPercentage(tIn.gasUsed, tIn.gas)]
    /\ UNCHANGED <<tIn, notT>>

NextTx == Analyze

SpecTx == InitTx /\ [][NextTx]_vars

\* The closed set of labels.
TransactionTypes ==
    { "Native Token Transfer", "ERC20 Token Transfer", "ERC721 NFT Transfer",
      "ERC1155 Token Transfer", "Token Approval", "Contract Deployment",
      "Contract Interaction" }

\* C18: whatever the call data (absent, empty, any prefix) and the recipient
\* (present or absent), a transaction that is analysed receives one label of
\* the closed label set.
C18_EveryTransactionLabelled ==
    tResult.status = "returned" => tResult.transactionType \in TransactionTypes

\* A transaction with call data that matches no selector and with no
\* recipient, and one label for it.
C18_Witness ==
    /\ tResult.status = "returned"
    /\ tIn.data = Str(<<"0","x","a","9">>)
    /\ tIn.to = Undefined
    /\ tResult.transactionType \in TransactionTypes

\* Call data that is neither absent nor one of the empty forms "", "0x", "0x0".
NonEmptyData(tx) == TxData(tx) \notin {<<>>, S_0x, S_0x0}

\* C19: a transaction with non-empty call data and no recipient (to is
\* undefined or null) is labelled Contract Deployment, whatever its call data
\* starts with.
C19_NoRecipientIsDeployment ==
    (/\ tResult.status = "returned"
     /\ NonEmptyData(tIn)
     /\ tIn.to \in {Undefined, Null})
        => tResult.transactionType = "Contract Deployment"

\* The label that the ratio gasUsed / gasLimit itself calls for.
EfficiencyOfRatio(gasUsed, gasLimit) ==
    IF gasUsed * 100 < 60 * gasLimit THEN "Excellent"
    ELSE IF gasUsed * 100 < 80 * gasLimit THEN "Good"
    ELSE IF gasUsed * 100 < 95 * gasLimit THEN "Fair"
    ELSE "Poor"

\* C20: for every gasUsed and every gasLimit > 0 the gas-efficiency label is
\* the one the ratio gasUsed / gasLimit calls for: Excellent below 60%, Good
\* below 80%, Fair below 95%, Poor otherwise.
C20_EfficiencyByRatio ==
    (tResult.status = "returned" /\ tIn.gas > 0) =>
        tResult.gasEfficiency = EfficiencyOfRatio(tIn.gasUsed, tIn.gas)

(***************************************************************************)
(* Address history and address metrics (getIOTATransactionHistory,         *)
(* getIOTAAddressMetrics)                                                  *)
(***************************************************************************)
\* The cap of the scan, the size of a batch, the transactions taken per block.
scanCap == 50
scanBatch == 5
sliceEnd == 10

\* The chain that is read: how many transactions block n holds, and what the
\* k-th of them is to the address ("sent", "received", neither, or a hash
\* whose getTransaction rejects).
TxCountOf(n) == (n * 7) % 13
TxOutcome(n, k) ==
    CASE (n + k) % 5 = 0 -> "sent"
      [] (n + k) % 5 = 1 -> "received"
      [] (n + k) % 5 = 2 -> "error"
      [] OTHER -> "miss"

\* blocksToScan = Math.min(50, Number(latestBlock.number))
BlocksToScan(latest) == IF latest < scanCap THEN latest ELSE scanCap

\* The whole block instead of block.transactions.slice(0, 10).
TxsToProcessAll(n) == TxCountOf(n)

\* txsToProcess = block.transactions.slice(0, 10): how many are taken.
TxsToProcess(n) == IF TxCountOf(n) < sliceEnd THEN TxCountOf(n) ELSE sliceEnd

\* The loop over txsToProcess of block n from its k-th transaction on: it
\* stops at the limit, and pushes the transactions of the address.
RECURSIVE ScanTxs(_, _, _, _)
ScanTxs(n, k, txs, limit) ==
    IF k > TxsToProcess(n) \/ Len(txs) >= limit
    THEN [txs |-> txs, inspected |-> k - 1]
    ELSE ScanTxs(n, k + 1,
                 IF TxOutcome(n, k) \in {"sent", "received"}
                 THEN Append(txs, <<n, k>>) ELSE txs,
                 limit)

\* The loop over the blocks of a fulfilled batch, newest first.
RECURSIVE ScanBlocks(_, _, _, _)
ScanBlocks(ns, txs, seen, limit) ==
    IF ns = <<>> \/ Len(txs) >= limit
    THEN [txs |-> txs, seen |-> seen]
    ELSE LET r == ScanTxs(Head(ns), 1, txs, limit)
         IN  ScanBlocks(Tail(ns), r.txs, seen \cup {<<Head(ns), r.inspected>>}, limit)

\* The block numbers of the batch at offset i, in the order they are pushed.
BatchOf(latest, i) ==
    LET size == IF BlocksToScan(latest) - i < scanBatch
                THEN BlocksToScan(latest) - i ELSE scanBatch
    IN  [j \in 1..size |-> latest - (i + j - 1)]

MaxLatest == 53

InitHistory ==
    /\ histIn \in {[caller |-> c, network |-> n, limit |-> l, latest |-> b] :
                      c \in {"history", "metrics"},
                      n \in {S_iota, S_shimmer, S_ethereum},
                      l \in {1, 10, 100},
                      b \in {0, 3, scanCap, MaxLatest}}
    /\ histIn.caller = "metrics" => histIn.limit = 100
    /\ histPc = "idle"
    /\ histI = 0
    /\ histFlight = {}
    /\ histReads = {}
    /\ histSeen = {}
    /\ histTxs = <<>>
    /\ histResult = [status |-> "none", transactions |-> <<>>]
    /\ addrResult = NoRecord
    /\ EarlierIdle
    /\ GIdle
    /\ KIdle
    /\ EIdle
    /\ WIdle
    /\ XIdle
    /\ NIdle

\* network === "shimmer" ? "SMR" : "MIOTA"
FallbackSymbol(network) == IF network = S_shimmer THEN "SMR" ELSE "MIOTA"

\* The record of the catch block of getIOTAAddressMetrics.
DefaultRecord(in) ==
    [status |-> "returned", address |-> "addressOrEns", txCount |-> 0,
     sentTxCount |-> 0, receivedTxCount |-> 0, totalSent |-> <<0, 0>>,
     totalReceived |-> <<0, 0>>, tokenSymbol |-> FallbackSymbol(in.network),
     firstTxTimestamp |-> Null, lastTxTimestamp |-> Null, accountAge |-> Null]

\* getIOTAAddressMetrics up to its call of getIOTATransactionHistory: the
\* network test and resolveAddress, whose failure the catch block answers.
AddressMetricsBegin ==
    /\ histPc = "idle"
    /\ histIn.caller = "metrics"
    /\ IF ~isIOTANetwork(StrArg(histIn.network))
       THEN histPc' = "emitted" /\ addrResult' = DefaultRecord(histIn)
       ELSE \E resolved \in BOOLEAN :
               IF resolved
               THEN histPc' = "called" /\ addrResult' = addrResult
               ELSE histPc' = "emitted" /\ addrResult' = DefaultRecord(histIn)
    /\ UNCHANGED <<histIn, histI, histFlight, histReads, histSeen, histTxs,
                   histResult, notHist>>

\* getIOTATransactionHistory up to its loop: the network test, resolveAddress
\* and the read of the latest block; on a failure it returns [].
HistoryBegin ==
    /\ histPc = IF histIn.caller = "metrics" THEN "called" ELSE "idle"
    /\ IF ~isIOTANetwork(StrArg(histIn.network))
       THEN /\ histPc' = "done"
            /\ histResult' = [status |-> "returned", transactions |-> <<>>]
            /\ histReads' = histReads
       ELSE \E reads \in {"return", "reject"} :
               IF reads = "reject"
               THEN /\ histPc' = "done"
                    /\ histResult' = [status |-> "returned", transactions |-> <<>>]
                    /\ histReads' = histReads
               ELSE /\ histPc' = "loop"
                    /\ histResult' = histResult
                    /\ histReads' = {histIn.latest}
    /\ UNCHANGED <<histIn, histI, histFlight, histSeen, histTxs, addrResult, notHist>>

\* One turn of the outer loop up to its await: the reads of a batch are issued.
BatchStart ==
    /\ histPc = "loop"
    /\ histI < BlocksToScan(histIn.latest)
    /\ Len(histTxs) < histIn.limit
    /\ LET batch == BatchOf(histIn.latest, histI)
       IN  /\ histFlight' = {batch[j] : j \in DOMAIN batch}
           /\ histReads' = histReads \cup {batch[j] : j \in DOMAIN batch}
    /\ histPc' = "await"
    /\ UNCHANGED <<histIn, histI, histSeen, histTxs, histResult, addrResult, notHist>>

\* Promise.all of the batch is fulfilled: its blocks are processed; then
\* i += 5.
ScanFulfilled ==
    /\ histPc = "await"
    /\ LET r == ScanBlocks(BatchOf(histIn.latest, histI), histTxs, histSeen,
                           histIn.limit)
       IN  histTxs' = r.txs /\ histSeen' = r.seen
    /\ histFlight' = {}
    /\ histI' = histI + scanBatch
    /\ histPc' = "loop"
    /\ UNCHANGED <<histIn, histReads, histResult, addrResult, notHist>>

\* Promise.all of the batch is rejected: the catch block logs; then i += 5.
ScanRejected ==
    /\ histPc = "await"
    /\ histFlight' = {}
    /\ histI' = histI + scanBatch
    /\ histPc' = "loop"
    /\ UNCHANGED <<histIn, histReads, histSeen, histTxs, histResult, addrResult,
                   notHist>>

\* The loop condition fails: return transactions.
HistoryReturn ==
    /\ histPc = "loop"
    /\ ~(histI < BlocksToScan(histIn.latest) /\ Len(histTxs) < histIn.limit)
    /\ histPc' = "done"
    /\ histResult' = [status |-> "returned", transactions |-> histTxs]
    /\ UNCHANGED <<histIn, histI, histFlight, histReads, histSeen, histTxs,
                   addrResult, notHist>>

\* The timestamp and the value of the transaction <<n, k>>.
TimestampOf(tx) == 1000 + tx[1]
ValueOf(tx) == tx[2]

\* formatUnits(value, decimals): the integer part and the fraction, in units
\* of 10^-decimals.
FormatUnits(value, decimals) ==
    <<value \div Pow10(decimals), value % Pow10(decimals)>>

\* The counts, sums and timestamps over the transactions of the history; a
\* timestamp that is still null is held as 0.
RECURSIVE Tally(_, _)
Tally(txs, acc) ==
    IF txs = <<>> THEN acc
    ELSE LET tx == Head(txs)
             ts == TimestampOf(tx)
             sent == TxOutcome(tx[1], tx[2]) = "sent"
             received == TxOutcome(tx[1], tx[2]) = "received"
         IN  Tally(Tail(txs),
                   [sentTxCount |-> acc.sentTxCount + (IF sent THEN 1 ELSE 0),
                    receivedTxCount |-> acc.receivedTxCount + (IF received THEN 1 ELSE 0),
                    totalSent |-> acc.totalSent + (IF sent THEN ValueOf(tx) ELSE 0),
                    totalReceived |->
                        acc.totalReceived + (IF received THEN ValueOf(tx) ELSE 0),
                    firstTxTimestamp |->
                        IF ts > 0 /\ (acc.firstTxTimestamp = 0 \/ ts < acc.firstTxTimestamp)
                        THEN ts ELSE acc.firstTxTimestamp,
                    lastTxTimestamp |->
                        IF ts > 0 /\ (acc.lastTxTimestamp = 0 \/ ts > acc.lastTxTimestamp)
                        THEN ts ELSE acc.lastTxTimestamp])

\* The record of the success path of getIOTAAddressMetrics.
MetricsRecord(in, txs, tokenInfo, ageInSeconds) ==
    LET t == Tally(txs, [sentTxCount |-> 0, receivedTxCount |-> 0, totalSent |-> 0,
                         totalReceived |-> 0, firstTxTimestamp |-> 0,
                         lastTxTimestamp |-> 0])
        decimals == IF tokenInfo.decimals = 0 THEN 6 ELSE tokenInfo.decimals
    IN  [status |-> "returned", address |-> "address", txCount |-> Len(txs),
         sentTxCount |-> t.sentTxCount, receivedTxCount |-> t.receivedTxCount,
         totalSent |-> FormatUnits(t.totalSent, decimals),
         totalReceived |-> FormatUnits(t.totalReceived, decimals),
         tokenSymbol |->
             IF tokenInfo.symbol = "" THEN FallbackSymbol(in.network)
             ELSE tokenInfo.symbol,
         firstTxTimestamp |->
             IF t.firstTxTimestamp = 0 THEN Null ELSE t.firstTxTimestamp,
         lastTxTimestamp |->
             IF t.lastTxTimestamp = 0 THEN Null ELSE t.lastTxTimestamp,
         accountAge |->
             IF t.firstTxTimestamp = 0 THEN Null
             ELSE IF ageInSeconds < 86400
                  THEN <<ageInSeconds \div 3600, "hours">>
                  ELSE <<ageInSeconds \div 86400, "days">>]

\* getIOTAAddressMetrics after the history has returned: the token
\* information or its fallback, the tally, the record.
AddressMetricsReturn ==
    /\ histPc = "done"
    /\ histIn.caller = "metrics"
    /\ \E tokenInfo \in {[symbol |-> "IOTA", decimals |-> 1],
                         [symbol |-> "", decimals |-> 0],
                         [symbol |-> FallbackSymbol(histIn.network), decimals |-> 6]},
          ageInSeconds \in {7200, 172800} :
          addrResult' = MetricsRecord(histIn, histResult.transactions, tokenInfo,
                                      ageInSeconds)
    /\ histPc' = "emitted"
    /\ UNCHANGED <<histIn, histI, histFlight, histReads, histSeen, histTxs,
                   histResult, notHist>>

NextHistory ==
    \/ AddressMetricsBegin
    \/ HistoryBegin
    \/ BatchStart
    \/ ScanFulfilled
    \/ ScanRejected
    \/ HistoryReturn
    \/ AddressMetricsReturn

\* Every await of the scan settles and the loop goes on: the run does not
\* stay for ever before the next turn of the loop, before a batch that can
\* settle, or before the return.
SpecHistory ==
    /\ InitHistory
    /\ [][NextHistory]_vars
    /\ WF_vars(BatchStart \/ ScanRejected \/ HistoryReturn)

\* The numbers of the 50 most recent blocks.
MostRecent(latest) == {n \in 0..latest : n > latest - scanCap}

\* C21: one scan of the address history reads only blocks among the 50 most
\* recent, awaits at most 5 block reads at a time, inspects at most 10
\* transactions of any block, and once called it returns.
C21_ScanBoundedAndTerminates ==
    /\ [](/\ histReads \subseteq MostRecent(histIn.latest)
          /\ Cardinality(histReads) <= 50
          /\ Cardinality(histFlight) <= 5
          /\ \A s \in histSeen : s[2] <= 10)
    /\ (histPc \in {"loop", "await"} ~> histResult.status = "returned")

\* A scan of a chain higher than the cap that has returned after reading 50
\* blocks, one of which holds more than 10 transactions and was processed.
C21_Witness ==
    /\ histResult.status = "returned"
    /\ histIn.latest > 50
    /\ Cardinality(histReads) = 50
    /\ \E s \in histSeen : TxCountOf(s[1]) > 10 /\ s[2] = 10

\* C22: every record of address metrics that is returned carries the window
\* that was sampled: the range of blocks scanned and the cap of the scan.
C22_RecordCarriesSampledWindow ==
    addrResult.status = "returned" =>
        {"sampleBlockRange", "scanCap"} \subseteq DOMAIN addrResult

(***************************************************************************)
(* Gas prices and transaction cost (getIOTAGasPrices,                      *)
(* estimateIOTATransactionCost, estimate_iota_transaction_cost)            *)
(***************************************************************************)
\* Wei per gwei.
GWEI == 1000000000

\* formatGwei(wei): the decimal string "whole.nano" with nine fraction digits.
FormatGwei(wei) == [kind |-> "gwei", whole |-> wei \div GWEI, nano |-> wei % GWEI]

\* The gas prices below 60 wei whose gwei string, parsed by parseFloat and
\* multiplied by 1e9 in double arithmetic, falls just below the integer:
\* 0.000000015 * 1e9 = 14.999999999999998, 0.00000003 * 1e9 = 29.999999999999996.
FloatShort == {15, 30}

\* BigInt(Math.floor(parseFloat(gwei) * 1e9))
ParseGweiFloor(gwei) ==
    LET exact == gwei.whole * GWEI + gwei.nano
    IN  IF exact \in FloatShort THEN exact - 1 ELSE exact

\* BigInt(Math.floor(Number(currentGasPrice) * multiplier)), the multiplier
\* given as a fraction.
Tier(p, num, den) == (p * num) \div den

\* networkCongestion, from gasUsed / gasLimit of the latest block.
Congestion(gasUsed, gasLimit) ==
    IF gasLimit > 0 /\ 10 * gasUsed > 7 * gasLimit THEN "high"
    ELSE IF gasLimit > 0 /\ 10 * gasUsed > 4 * gasLimit THEN "medium"
    ELSE "low"

\* What getIOTAGasPrices returns when its reads succeed.
GasPrices(in) ==
    [status |-> "returned",
     slow |-> FormatGwei(Tier(in.price, 4, 5)),
     standard |-> FormatGwei(in.price),
     fast |-> FormatGwei(Tier(in.price, 6, 5)),
     instant |-> FormatGwei(Tier(in.price, 3, 2)),
     baseFee |-> FormatGwei(in.baseFee),
     networkCongestion |-> Congestion(in.blockGasUsed, in.blockGasLimit)]

\* BigInt(string): the number a string of decimal digits denotes; any other
\* string throws.
BigIntOf(s) ==
    IF \A i \in 1..Len(s) : DigitValue(s[i], 10) >= 0
    THEN [ok |-> TRUE, val |-> ReadDigits(s, 10, 0, FALSE).val]
    ELSE [ok |-> FALSE, val |-> 0]

\* estimateIOTATransactionCost(gasLimit, gasPrice, network): gasPrice is a
\* bigint or undefined (held as -1); a gasPrice that is falsy gives way to
\* the current gas price.
EstimateCost(gasLimit, gasPrice, in) ==
    LET actualGasPrice == IF gasPrice = -1 \/ gasPrice = 0 THEN in.price ELSE gasPrice
        totalWei == actualGasPrice * gasLimit
    IN  [status |-> "returned", gasLimit |-> gasLimit,
         gasPrice |-> FormatGwei(actualGasPrice),
         totalRaw |-> totalWei,
         totalFormatted |-> FormatUnits(totalWei, 6),
         token |-> IF in.network = S_shimmer THEN "SMR" ELSE "MIOTA",
         usdEquivalent |-> Null]

\* The tier of the quote that the speed selects.
SelectedGasPrice(gasPrices, speed) ==
    CASE speed = "slow" -> gasPrices.slow
      [] speed = "fast" -> gasPrices.fast
      [] speed = "instant" -> gasPrices.instant
      [] OTHER -> gasPrices.standard

\* Inputs: the current gas price of the node in wei, the latest block, and
\* the arguments of the tool.
MaxPrice == 20

ExplicitPrices ==
    {[kind |-> "undefined"], [kind |-> "empty"]} \cup {FormatGwei(w) : w \in {0, 3, 15}}

InitGas ==
    /\ gIn \in {[call |-> c, network |-> n, price |-> p, baseFee |-> 0,
                 blockGasUsed |-> u, blockGasLimit |-> 10, reads |-> r,
                 gasLimit |-> g, gasPrice |-> q, speed |-> s] :
                   c \in {"quote", "estimate"},
                   n \in {S_iota, S_shimmer, S_ethereum},
                   p \in 0..MaxPrice, u \in {3, 8}, r \in {"return", "reject"},
                   g \in {<<"0">>, <<"2","1">>, <<"x">>},
                   q \in ExplicitPrices,
                   s \in {"undefined", "slow", "standard", "fast", "instant"}}
    /\ gIn.call = "quote" =>
          /\ gIn.gasLimit = <<"0">>
          /\ gIn.gasPrice.kind = "undefined"
          /\ gIn.speed = "undefined"
    /\ gIn.call = "estimate" => gIn.blockGasUsed = 3
    /\ gIn.reads = "reject" => gIn.price = 0
    /\ gPc = "idle"
    /\ gQuote = NoGas
    /\ gCost = NoGas
    /\ EarlierIdle
    /\ HistIdle
    /\ KIdle
    /\ EIdle
    /\ WIdle
    /\ XIdle
    /\ NIdle

\* getIOTAGasPrices(network): the two reads, the tiers, the record; a read
\* that fails is logged and thrown again.
GetGasPrices ==
    /\ gPc = "idle"
    /\ gIn.call = "quote"
    /\ gQuote' = IF gIn.reads = "reject" THEN [status |-> "thrown"] ELSE GasPrices(gIn)
    /\ gPc' = "done"
    /\ UNCHANGED <<gIn, gCost, notG>>

\* The handler of estimate_iota_transaction_cost: the network test, BigInt of
\* gasLimit, the gas price from the quote or from the argument, the estimate,
\* the envelope; whatever is thrown becomes an error envelope.
EstimateTool ==
    /\ gPc = "idle"
    /\ gIn.call = "estimate"
    /\ LET speed == IF gIn.speed = "undefined" THEN "standard" ELSE gIn.speed
           gasLimitBigInt == BigIntOf(gIn.gasLimit)
           supplied == gIn.gasPrice.kind = "gwei"
           quoted == ~supplied
           gasPrices == IF gIn.reads = "reject" THEN [status |-> "thrown"]
                        ELSE GasPrices(gIn)
           gasPriceBigInt ==
               IF supplied THEN ParseGweiFloor(gIn.gasPrice)
               ELSE ParseGweiFloor(SelectedGasPrice(gasPrices, speed))
           failed == \/ ~isIOTANetwork(StrArg(gIn.network))
                     \/ ~gasLimitBigInt.ok
                     \/ gIn.reads = "reject"
       IN  /\ gQuote' = IF quoted /\ isIOTANetwork(StrArg(gIn.network))
                           /\ gasLimitBigInt.ok
                        THEN gasPrices ELSE gQuote
           /\ gCost' =
                 IF failed THEN [status |-> "isError"]
                 ELSE [EstimateCost(gasLimitBigInt.val, gasPriceBigInt, gIn)
                          EXCEPT !.status = "content"]
    /\ gPc' = "done"
    /\ UNCHANGED <<gIn, notG>>

NextGas == GetGasPrices \/ EstimateTool

SpecGas == InitGas /\ [][NextGas]_vars

\* The price in wei that a string of the form "whole.nano" gwei denotes.
WeiOf(gwei) == gwei.whole * GWEI + gwei.nano

\* C23: the total of a cost estimate is gasLimit x gasPrice, where gasPrice is
\* the price the caller supplied, whatever its value, and otherwise the price
\* of the tier that speed selects, standard when no speed is given.
C23_TotalIsLimitTimesPrice ==
    gCost.status = "content" =>
        gCost.totalRaw =
            BigIntOf(gIn.gasLimit).val *
                (IF gIn.gasPrice.kind = "gwei" THEN WeiOf(gIn.gasPrice)
                 ELSE WeiOf(SelectedGasPrice(gQuote, gIn.speed)))

\* C24: for every current gas price p the tiers of the quote are
\* slow = 0.8 p, standard = p, fast = 1.2 p and instant = 1.5 p.
C24_TiersAreMultiplesOfPrice ==
    (gIn.call = "quote" /\ gQuote.status = "returned") =>
        /\ 5 * WeiOf(gQuote.slow) = 4 * gIn.price
        /\ WeiOf(gQuote.standard) = gIn.price
        /\ 5 * WeiOf(gQuote.fast) = 6 * gIn.price
        /\ 2 * WeiOf(gQuote.instant) = 3 * gIn.price

(***************************************************************************)
(* Contract analysis (analyzeIOTASmartContract, analyze_iota_smart_contract)*)
(***************************************************************************)
\* const interfaces: the names and, for each, the functions it requires, in
\* the order of Object.entries.
InterfaceNames == <<"ERC20", "ERC721", "ERC1155", "Ownable", "Pausable">>

interfaces ==
    [ERC20 |-> {"balanceOf", "transfer", "transferFrom", "approve", "allowance"},
     ERC721 |-> {"balanceOf", "ownerOf", "transferFrom", "safeTransferFrom", "approve"},
     ERC1155 |-> {"balanceOf", "balanceOfBatch", "safeTransferFrom",
                  "safeBatchTransferFrom"},
     Ownable |-> {"owner", "transferOwnership"},
     Pausable |-> {"paused", "pause", "unpause"}]

\* functionNames: the names of the items of type "function".
FunctionNames(abi) == {item.name : item \in {i \in abi : i.type = "function"}}

\* requiredFunctions.every((func) => functionNames.includes(func))
Implements(name, abi) == interfaces[name] \subseteq FunctionNames(abi)

\* implementedInterfaces
ImplementedInterfaces(abi) ==
    SelectSeq(InterfaceNames, LAMBDA name : Implements(name, abi))

\* The functions that ERC-4626 and EIP-2612 require.
ERC4626Functions ==
    {"asset", "totalAssets", "convertToShares", "convertToAssets", "maxDeposit",
     "previewDeposit", "deposit", "maxMint", "previewMint", "mint", "maxWithdraw",
     "previewWithdraw", "withdraw", "maxRedeem", "previewRedeem", "redeem"}
EIP2612Functions == {"permit", "nonces", "DOMAIN_SEPARATOR"}

\* The ABIs that are analysed: the functions of some standards, without one
\* of them or with one of them declared as an event only.
Kits ==
    {interfaces.ERC20, interfaces.ERC721, interfaces.ERC1155, interfaces.Ownable,
     interfaces.Pausable, ERC4626Functions, EIP2612Functions}

AbiInputs ==
    {{[type |-> "function", name |-> f] : f \in (UNION kits) \ {dropped}}
         \cup {[type |-> "event", name |-> e] : e \in {dropped} \cup {"Transfer"}} :
        kits \in SUBSET Kits,
        dropped \in {"none", "balanceOf", "approve", "owner", "pause", "deposit",
                     "permit", "safeTransferFrom"}}

InitContract ==
    /\ kIn \in {[network |-> n, abi |-> a, code |-> c] :
                   n \in {S_iota, S_ethereum}, a \in AbiInputs,
                   c \in {"undefined", "0x", "0x6080", "reject"}}
    /\ kIn.network = S_ethereum => kIn.code = "0x6080"
    /\ kPc = "idle"
    /\ kResult = [status |-> "none"]
    /\ EarlierIdle
    /\ HistIdle
    /\ GIdle
    /\ EIdle
    /\ WIdle
    /\ XIdle
    /\ NIdle

\* The handler of analyze_iota_smart_contract: the network test,
\* resolveAddress, analyzeIOTASmartContract (the bytecode read, the ABI
\* analysis), the envelope.
AnalyzeContract ==
    /\ kPc = "idle"
    /\ kResult' =
          IF ~isIOTANetwork(StrArg(kIn.network)) \/ kIn.code = "reject"
          THEN [status |-> "isError"]
          ELSE IF kIn.code \in {"undefined", "0x"}
          THEN [status |-> "content", isContract |-> FALSE, interfaces |-> <<>>]
          ELSE [status |-> "content", isContract |-> TRUE,
                interfaces |-> ImplementedInterfaces(kIn.abi)]
    /\ kPc' = "done"
    /\ UNCHANGED <<kIn, notK>>

NextContract == AnalyzeContract

SpecContract == InitContract /\ [][NextContract]_vars

\* The standards and the functions each of them requires.
RequiredOf ==
    [ERC20 |-> interfaces.ERC20, ERC721 |-> interfaces.ERC721,
     ERC1155 |-> interfaces.ERC1155, ERC4626 |-> ERC4626Functions,
     EIP2612 |-> EIP2612Functions, Ownable |-> interfaces.Ownable,
     Pausable |-> interfaces.Pausable]

\* C25: for each of ERC20, ERC721, ERC1155, ERC4626, EIP2612, Ownable and
\* Pausable, the analysis of a contract reports the standard if and only if
\* the ABI declares every function that the standard requires.
C25_ImplementsIffAllRequired ==
    (kResult.status = "content" /\ kResult.isContract) =>
        \A standard \in DOMAIN RequiredOf :
            (\E i \in DOMAIN kResult.interfaces : kResult.interfaces[i] = standard)
                <=> RequiredOf[standard] \subseteq FunctionNames(kIn.abi)

(***************************************************************************)
(* Fungible-token metadata (getERC20TokenInfo, getIOTATokenInfo)           *)
(***************************************************************************)
\* The four getters name(), symbol(), decimals(), totalSupply().
Getters == {"name", "symbol", "decimals", "totalSupply"}

\* await Promise.all([...]) of the four reads: it is rejected as soon as one
\* of them is.
AllFulfilled(in) == \A g \in Getters : in[g].ok

\* The record that is returned when the four reads are fulfilled.
TokenInfo(in) ==
    [status |-> "returned", name |-> in.name.val, symbol |-> in.symbol.val,
     decimals |-> in.decimals.val, totalSupply |-> in.totalSupply.val,
     formattedTotalSupply |-> FormatUnits(in.totalSupply.val, in.decimals.val)]

\* The record of the catch block of getIOTATokenInfo.
IOTATokenFallback(network) ==
    [status |-> "returned",
     name |-> IF ToLowerCase(network) = S_shimmer THEN "Shimmer" ELSE "IOTA",
     symbol |-> IF ToLowerCase(network) = S_shimmer THEN "SMR" ELSE "MIOTA",
     decimals |-> 6, totalSupply |-> 0, formattedTotalSupply |-> <<0, 0>>]

\* What a getter answers: one of the values, or a rejection (which carries no
\* value; none fills the place).
Answers(values, none) ==
    {[ok |-> TRUE, val |-> v] : v \in values} \cup {[ok |-> FALSE, val |-> none]}

InitToken ==
    /\ eIn \in {[function |-> f, network |-> n, name |-> a, symbol |-> b,
                 decimals |-> c, totalSupply |-> d] :
                   f \in {"getERC20TokenInfo", "getIOTATokenInfo"},
                   n \in {S_iota, S_shimmer, S_ethereum},
                   a \in Answers({"Wrapped IOTA", "Unknown"}, ""),
                   b \in Answers({"WIOTA", "Unknown"}, ""),
                   c \in Answers({6, 8}, 0), d \in Answers({0, 5000}, 0)}
    /\ ePc = "idle"
    /\ eResult = [status |-> "none"]
    /\ EarlierIdle
    /\ HistIdle
    /\ GIdle
    /\ KIdle
    /\ WIdle
    /\ XIdle
    /\ NIdle

\* getERC20TokenInfo: the four reads are awaited together, outside any try.
ReadERC20TokenInfo ==
    /\ ePc = "idle"
    /\ eIn.function = "getERC20TokenInfo"
    /\ eResult' = IF AllFulfilled(eIn) THEN TokenInfo(eIn) ELSE [status |-> "thrown"]
    /\ ePc' = "done"
    /\ UNCHANGED <<eIn, notE>>

\* getIOTATokenInfo: the four reads are awaited together inside a try whose
\* catch block returns the fallback record.
ReadIOTATokenInfo ==
    /\ ePc = "idle"
    /\ eIn.function = "getIOTATokenInfo"
    /\ eResult' = IF AllFulfilled(eIn) THEN TokenInfo(eIn)
                  ELSE IOTATokenFallback(eIn.network)
    /\ ePc' = "done"
    /\ UNCHANGED <<eIn, notE>>

NextToken == ReadERC20TokenInfo \/ ReadIOTATokenInfo

SpecToken == InitToken /\ [][NextToken]_vars

\* The defaults of the four fields.
DefaultOf == [name |-> "Unknown", symbol |-> "Unknown", decimals |-> 18, totalSupply |-> 0]

\* C26: a read of token metadata in which the getter of a field fails still
\* returns; the field that failed has its default (name and symbol "Unknown",
\* decimals 18, totalSupply 0) and every other field has the value read.
C26_FailedFieldDefaults ==
    ePc = "done" /\ eIn.function # "none" =>
        /\ eResult.status = "returned"
        /\ \A g \in Getters :
              eResult[g] = IF eIn[g].ok THEN eIn[g].val ELSE DefaultOf[g]

(***************************************************************************)
(* Network growth (trackIOTANetworkGrowth)                                 *)
(***************************************************************************)
\* blocksPerDay, for an average block time in seconds.
BlocksPerDay(averageBlockTime) ==
    IF averageBlockTime > 0 THEN 86400 \div averageBlockTime ELSE 43200

TotalBlocksToAnalyze(in) == BlocksPerDay(in.averageBlockTime) * in.periodDays

\* historicalBlockNumber = Math.max(1, latest - totalBlocksToAnalyze)
HistoricalBlockNumber(in) ==
    IF in.latest - TotalBlocksToAnalyze(in) > 1
    THEN in.latest - TotalBlocksToAnalyze(in) ELSE 1

\* sampleSize = Math.min(50, totalBlocksToAnalyze)
SampleSize(in) ==
    IF TotalBlocksToAnalyze(in) < 50 THEN TotalBlocksToAnalyze(in) ELSE 50

\* sampleInterval = Math.floor(totalBlocksToAnalyze / sampleSize)
SampleInterval(in) == TotalBlocksToAnalyze(in) \div SampleSize(in)

\* The block numbers pushed in the batch batchIndex, in order.
GrowthBatch(in, batchIndex) ==
    LET first == batchIndex * batchSize
        size == IF SampleSize(in) - first < batchSize
                THEN SampleSize(in) - first ELSE batchSize
    IN  [i \in 1..size |->
            HistoricalBlockNumber(in) + (first + i - 1) * SampleInterval(in)]

\* Math.round(a / b) for a >= 0 and b > 0.
RoundDiv(a, b) == (a + b \div 2) \div b

\* The timestamp and the number of transactions of block n of the chain.
GrowthTimestamp(n) == 1000 + 2 * n
GrowthTxCount(n) == n % 2

\* dailyBlocks and dailyTransactions, from the latest and the historical
\* block and the blocks that were sampled.
GrowthMetrics(in, blocks) ==
    LET actualBlockCount == in.latest - HistoricalBlockNumber(in)
        seconds == GrowthTimestamp(in.latest)
                       - GrowthTimestamp(HistoricalBlockNumber(in))
        totalTransactions ==
            Cardinality({i \in DOMAIN blocks : GrowthTxCount(blocks[i]) = 1})
        sampled == IF Len(blocks) = 0 THEN 1 ELSE Len(blocks)
    IN  [status |-> "returned",
         dailyBlocks |->
             IF seconds = 0 THEN actualBlockCount
             ELSE RoundDiv(actualBlockCount * 86400, seconds),
         dailyTransactions |->
             IF seconds = 0 THEN RoundDiv(actualBlockCount * totalTransactions, sampled)
             ELSE RoundDiv(actualBlockCount * totalTransactions * 86400,
                           sampled * seconds)]

MaxPeriod == 3

InitGrowth ==
    /\ wIn \in {[network |-> n, periodDays |-> d, latest |-> b,
                 averageBlockTime |-> t, failing |-> f] :
                   n \in {S_iota, S_ethereum}, d \in 1..MaxPeriod,
                   b \in {5, 40, 400}, t \in {0, 2160, 8640},
                   f \in {{}, {1}, {0, 2}}}
    /\ wPc = "idle"
    /\ wBatch = 0
    /\ wSampled = {}
    /\ wBlocks = <<>>
    /\ wResult = [status |-> "none"]
    /\ EarlierIdle
    /\ HistIdle
    /\ GIdle
    /\ KIdle
    /\ EIdle
    /\ XIdle
    /\ NIdle

\* trackIOTANetworkGrowth up to its batch loop: the network test, which
\* throws, then the current metrics, the latest and the historical block.
GrowthBegin ==
    /\ wPc = "idle"
    /\ IF ~isIOTANetwork(StrArg(wIn.network))
       THEN wPc' = "done" /\ wResult' = [status |-> "thrown"]
       ELSE wPc' = "batching" /\ wResult' = wResult
    /\ UNCHANGED <<wIn, wBatch, wSampled, wBlocks, notW>>

\* One turn of the batch loop: the blocks of the batch are asked for and
\* Promise.all awaited; a batch with a block that the node does not have, or
\* that the node fails, is rejected and logged.
GrowthBatchSettles ==
    /\ wPc = "batching"
    /\ wBatch < CeilDiv(SampleSize(wIn), batchSize)
    /\ LET batch == GrowthBatch(wIn, wBatch)
           numbers == {batch[i] : i \in DOMAIN batch}
           rejected == wBatch \in wIn.failing \/ \E n \in numbers : n > wIn.latest
       IN  /\ wSampled' = wSampled \cup numbers
           /\ wBlocks' = IF rejected THEN wBlocks ELSE wBlocks \o batch
    /\ wBatch' = wBatch + 1
    /\ UNCHANGED <<wIn, wPc, wResult, notW>>

\* After the last batch: the growth metrics and the return.
GrowthFinish ==
    /\ wPc = "batching"
    /\ wBatch >= CeilDiv(SampleSize(wIn), batchSize)
    /\ wResult' = GrowthMetrics(wIn, wBlocks)
    /\ wPc' = "done"
    /\ UNCHANGED <<wIn, wBatch, wSampled, wBlocks, notW>>

NextGrowth == GrowthBegin \/ GrowthBatchSettles \/ GrowthFinish

SpecGrowth == InitGrowth /\ [][NextGrowth]_vars

\* C27: the growth estimate samples at most 50 blocks, and the number of
\* every block it samples lies between the historical block and the latest
\* block, inclusive.
C27_SamplesAreIntermediate ==
    /\ Cardinality(wSampled) <= 50
    /\ \A n \in wSampled :
          /\ n >= (IF wIn.latest - TotalBlocksToAnalyze(wIn) > 1
                   THEN wIn.latest - TotalBlocksToAnalyze(wIn) ELSE 1)
          /\ n <= wIn.latest

(***************************************************************************)
(* The DeFi agent and its client (IOTADefiAgent, IOTAClientWrapper)        *)
(***************************************************************************)
\* this.aiModel as initializeAIModel() leaves it: the properties it has.
aiModel == {"modelType", "processTransaction", "processBlock"}

\* generateRecommendations(analysis).trading.action, the signal in hundredths.
TradingAction(signal) ==
    IF signal > 70 THEN "BUY" ELSE IF signal < 30 THEN "SELL" ELSE "HOLD"

\* analyzeIOTAMarket(): the market data, then this.aiModel.analyze(marketData),
\* which is a TypeError when aiModel has no analyze; the catch block logs and
\* throws again.
AnalyzeIOTAMarket(signal) ==
    IF "analyze" \in aiModel
    THEN [status |-> "resolved", marketData |-> "marketData", analysis |-> signal,
          action |-> TradingAction(signal)]
    ELSE [status |-> "rejected", marketData |-> "none", analysis |-> 0,
          action |-> "none"]

\* The guard of sendTransaction and getBalance that never throws.
NotConnectedNever(isConnected) == FALSE

\* if (!this.isConnected) throw new Error("Not connected to IOTA network")
NotConnected(isConnected) == ~isConnected

\* How many requests a call makes to the node before it returns:
\* buildAndPostBlock; getProtocolParameters, basicOutputIds, getOutput.
NodeRequests(op) == IF op = "sendTransaction" THEN 1 ELSE 3

\* Whether a connect() call has succeeded and no disconnect() call has been
\* made since.
Live(log) == Len(log) > 0 /\ log[Len(log)] = "connected"

MaxCalls == 5

\* A newly constructed agent: its client is not connected.
InitAgent ==
    /\ xConnected = FALSE
    /\ xConnecting = 0
    /\ xOp = NoCall
    /\ xLast = NoCall
    /\ xLog = <<>>
    /\ xCalls = 0
    /\ xMarket = [status |-> "none"]
    /\ EarlierIdle
    /\ HistIdle
    /\ GIdle
    /\ KIdle
    /\ EIdle
    /\ WIdle
    /\ NIdle

\* connect() up to its await of getNodeInfo.
ConnectCall ==
    /\ xCalls \in 0..(MaxCalls - 1)
    /\ xConnecting < 2
    /\ xConnecting' = xConnecting + 1
    /\ xCalls' = xCalls + 1
    /\ UNCHANGED <<xConnected, xOp, xLast, xLog, xMarket, notX>>

\* getNodeInfo is fulfilled: isConnected = true, return true.
ConnectFulfilled ==
    /\ xConnecting > 0
    /\ xConnecting' = xConnecting - 1
    /\ xConnected' = TRUE
    /\ xLog' = Append(xLog, "connected")
    /\ UNCHANGED <<xOp, xLast, xCalls, xMarket, notX>>

\* getNodeInfo is rejected: the catch block logs and throws again.
ConnectRejected ==
    /\ xConnecting > 0
    /\ xConnecting' = xConnecting - 1
    /\ UNCHANGED <<xConnected, xOp, xLast, xLog, xCalls, xMarket, notX>>

\* disconnect()
Disconnect ==
    /\ xCalls \in 0..(MaxCalls - 1)
    /\ xConnected' = FALSE
    /\ xLog' = Append(xLog, "disconnect")
    /\ xCalls' = xCalls + 1
    /\ UNCHANGED <<xConnecting, xOp, xLast, xMarket, notX>>

\* sendTransaction or getBalance up to its first await: the guard throws, or
\* the first request goes to the node.
OperationCall ==
    /\ xCalls \in 0..(MaxCalls - 1)
    /\ xOp = NoCall
    /\ \E op \in {"sendTransaction", "getBalance"} :
          IF NotConnected(xConnected)
          THEN /\ xLast' = [op |-> op, live |-> Live(xLog), contacted |-> 0,
                            outcome |-> "Not connected to IOTA network"]
               /\ xOp' = xOp
          ELSE /\ xOp' = [op |-> op, live |-> Live(xLog), contacted |-> 1,
                          outcome |-> "pending"]
               /\ xLast' = xLast
    /\ xCalls' = xCalls + 1
    /\ UNCHANGED <<xConnected, xConnecting, xLog, xMarket, notX>>

\* An awaited request is answered: the next request goes to the node, or the
\* call returns; or the request fails and the catch block throws again.
OperationSettles ==
    /\ xOp # NoCall
    /\ \E answer \in {"fulfilled", "rejected"} :
          IF answer = "fulfilled" /\ xOp.contacted < NodeRequests(xOp.op)
          THEN /\ xOp' = [xOp EXCEPT !.contacted = @ + 1]
               /\ xLast' = xLast
          ELSE /\ xLast' = [xOp EXCEPT !.outcome = answer]
               /\ xOp' = NoCall
    /\ UNCHANGED <<xConnected, xConnecting, xLog, xCalls, xMarket, notX>>

\* analyzeIOTAMarket() on the agent.
AnalyzeMarket ==
    /\ xCalls \in 0..(MaxCalls - 1)
    /\ \E signal \in {10, 50, 90} : xMarket' = AnalyzeIOTAMarket(signal)
    /\ xCalls' = xCalls + 1
    /\ UNCHANGED <<xConnected, xConnecting, xOp, xLast, xLog, notX>>

NextAgent ==
    \/ ConnectCall
    \/ ConnectFulfilled
    \/ ConnectRejected
    \/ Disconnect
    \/ OperationCall
    \/ OperationSettles
    \/ AnalyzeMarket

SpecAgent == InitAgent /\ [][NextAgent]_vars

\* C28: analyzeIOTAMarket() on a newly constructed agent resolves with
\* marketData, analysis and recommendations, and the trading action is BUY,
\* SELL or HOLD.
C28_MarketAnalysisResolves ==
    xMarket.status # "none" =>
        /\ xMarket.status = "resolved"
        /\ xMarket.action \in {"BUY", "SELL", "HOLD"}

\* C29: a sendTransaction or getBalance call contacts the node only if, when
\* it is made, a connect() call has succeeded and disconnect() has not been
\* called since; every other call is rejected with "Not connected to IOTA
\* network" and contacts nothing.
C29_NodeContactedOnlyWhenConnected ==
    /\ xOp # NoCall => xOp.live
    /\ xLast # NoCall =>
          IF xLast.live THEN xLast.contacted >= 1
          ELSE /\ xLast.contacted = 0
               /\ xLast.outcome = "Not connected to IOTA network"

\* A call that was refused after a connect() had succeeded and disconnect()
\* had been called.
C29_Witness ==
    /\ xLast.op = "getBalance"
    /\ xLast.outcome = "Not connected to IOTA network"
    /\ xLast.contacted = 0
    /\ Len(xLog) >= 2
    /\ xLog[Len(xLog) - 1] = "connected"
    /\ xLog[Len(xLog)] = "disconnect"

(***************************************************************************)
(* The tool get_iota_network_info (iota-tools.ts, iota-chains.ts)          *)
(***************************************************************************)
\* The chain definitions of iota-chains.ts: id, network and rpcUrls.
iotaMainnet ==
    [id |-> 1074, network |-> S_iota, rpcUrl |-> "https://evm.wasp.sc.iota.org"]

iotaTestnet ==
    [id |-> 1075, network |-> S_iotaTestnet,
     rpcUrl |-> "https://testnet.evm.wasp.sc.iota.org"]

shimmerEVM ==
    [id |-> 148, network |-> S_shimmer,
     rpcUrl |-> "https://json-rpc.evm.shimmer.network"]

SiblingChains == {iotaMainnet, iotaTestnet, shimmerEVM}

\* The chain registry's resolve(name | chainId): names in any letter case,
\* then the chain id the string parses to.
Resolve(network) ==
    LET parsed == ParseInt(network)
    IN  {c \in SiblingChains :
            \/ ToLowerCase(network) = c.network
            \/ ~parsed.nan /\ parsed.val = c.id}

\* chainId of the response: compared with "shimmer" and "iota-testnet",
\* IOTA_MAINNET_ID for everything else.
InfoChainId(network) ==
    IF network = S_shimmer THEN IOTA_SHIMMER_ID
    ELSE IF network = S_iotaTestnet THEN IOTA_TESTNET_ID
    ELSE IOTA_MAINNET_ID

\* rpcUrl of the response, chosen by the same two comparisons.
InfoRpcUrl(network) ==
    IF network = S_shimmer THEN "https://json-rpc.evm.shimmer.network"
    ELSE IF network = S_iotaTestnet THEN "https://testnet.evm.wasp.sc.iota.org"
    ELSE "https://evm.wasp.sc.iota.org"

\* The error response of the handler: the refusal and the catch block.
InfoError == [kind |-> "error", networkName |-> <<>>, chainId |-> 0, rpcUrl |-> ""]

\* The network arguments: names and numerals.
InfoInputs == NameInputs \cup DigitInputs

\* One call of the tool; an absent argument is "iota".
InitInfo ==
    /\ nIn \in InfoInputs
    /\ nPc = "validate"
    /\ nResult = NoInfo
    /\ EarlierIdle
    /\ HistIdle
    /\ GIdle
    /\ KIdle
    /\ EIdle
    /\ WIdle
    /\ XIdle

\* if (!isIOTANetwork(network)) return the refusal.
InfoValidate ==
    /\ nPc = "validate"
    /\ IF isIOTANetwork(StrArg(nIn))
       THEN nPc' = "blockNumber" /\ nResult' = nResult
       ELSE nPc' = "done" /\ nResult' = InfoError
    /\ UNCHANGED <<nIn, notN>>

\* await services.getBlockNumber(network): the registry resolves the network
\* and the node answers, or the call throws into the catch block.
InfoBlockNumber ==
    /\ nPc = "blockNumber"
    /\ \E answer \in {"return", "throw"} :
          IF Resolve(nIn) # {} /\ answer = "return"
          THEN nPc' = "tokenInfo" /\ nResult' = nResult
          ELSE nPc' = "done" /\ nResult' = InfoError
    /\ UNCHANGED <<nIn, notN>>

\* await getIOTATokenInfo(network), which answers with the token or with its
\* fallback, and the response.
InfoRespond ==
    /\ nPc = "tokenInfo"
    /\ nPc' = "done"
    /\ nResult' = [kind |-> "success", networkName |-> nIn,
                   chainId |-> InfoChainId(nIn), rpcUrl |-> InfoRpcUrl(nIn)]
    /\ UNCHANGED <<nIn, notN>>

NextInfo == InfoValidate \/ InfoBlockNumber \/ InfoRespond

SpecInfo == InitInfo /\ [][NextInfo]_vars

\* The sibling networks an identifier denotes: by name in any letter case, or
\* by the decimal numeral of the chain id.
Denoted(network) ==
    {c \in SiblingChains :
        ToLowerCase(network) = c.network \/ network = ToDecimal(c.id)}

\* C30: when get_iota_network_info accepts a network identifier, a sibling
\* name or a sibling chain id, the chainId and rpcUrl of its response are
\* those of the network the identifier denotes.
C30_ResponseDescribesDenotedNetwork ==
    nResult.kind = "success" =>
        \A c \in Denoted(nIn) :
            nResult.chainId = c.id /\ nResult.rpcUrl = c.rpcUrl

====
